---- MODULE Spec2Model ----
(***************************************************************************)
(* Model of the analyze-video edge function of sentinel-mine-eye           *)
(* (supabase/functions/analyze-video/index.ts): one analysis run, from     *)
(* the multipart payload to the JSON response.                             *)
(*                                                                         *)
(* Strings that the code inspects character by character (the declared     *)
(* file name) are sequences of one-character strings.  Confidences are     *)
(* integers in thousandths (0.6 is 600); client frame times are integers   *)
(* in hundredths of a second.                                              *)
(***************************************************************************)
EXTENDS Integers, Sequences, FiniteSets, TLC

\* ------------------------------------------------------------------------
\* Characters
\* ------------------------------------------------------------------------

Digits == {"0", "1", "2", "3", "4", "5", "6", "7", "8", "9"}

DigitValue == [c \in Digits |->
    CASE c = "0" -> 0 [] c = "1" -> 1 [] c = "2" -> 2 [] c = "3" -> 3
      [] c = "4" -> 4 [] c = "5" -> 5 [] c = "6" -> 6 [] c = "7" -> 7
      [] c = "8" -> 8 [] c = "9" -> 9]

IsDigit(c) == c \in Digits

\* \s of a JavaScript regular expression, and the characters trim() removes
IsSpace(c) == c \in {" ", "\t"}

\* the letters of "at" and "min" under the i flag
LowerOf == [A |-> "a", T |-> "t", M |-> "m", I |-> "i", N |-> "n"]

Lower(c) == IF c \in DOMAIN LowerOf THEN LowerOf[c] ELSE c

\* does s carry the literal lit (lower case) at position p, ignoring case
HasLiteralAt(s, p, lit) ==
    /\ p >= 1
    /\ p + Len(lit) - 1 <= Len(s)
    /\ \A k \in 1..Len(lit) : Lower(s[p + k - 1]) = lit[k]

HasDigitAt(s, p) == p >= 1 /\ p <= Len(s) /\ IsDigit(s[p])

\* parseInt of the decimal digits s[p..q]
RECURSIVE parseInt(_, _, _)
parseInt(s, p, q) ==
    IF q < p THEN 0 ELSE 10 * parseInt(s, p, q - 1) + DigitValue[s[q]]

\* String.prototype.trim
RECURSIVE trimLeft(_)
trimLeft(s) == IF Len(s) > 0 /\ IsSpace(s[1]) THEN trimLeft(Tail(s)) ELSE s

RECURSIVE trimRight(_)
trimRight(s) ==
    IF Len(s) > 0 /\ IsSpace(s[Len(s)])
    THEN trimRight(SubSeq(s, 1, Len(s) - 1)) ELSE s

trim(s) == trimRight(trimLeft(s))

\* replace(/_/g, ' ')
replaceUnderscores(s) == [k \in 1..Len(s) |-> IF s[k] = "_" THEN " " ELSE s[k]]

\* replace(/[^a-zA-Z0-9._-]/g, '_')
SafeChars == Digits \cup {".", "_", "-"} \cup
    {"a", "b", "c", "d", "e", "f", "g", "h", "i", "j", "k", "l", "m",
     "n", "o", "p", "q", "r", "s", "t", "u", "v", "w", "x", "y", "z",
     "A", "B", "C", "D", "E", "F", "G", "H", "I", "J", "K", "L", "M",
     "N", "O", "P", "Q", "R", "S", "T", "U", "V", "W", "X", "Y", "Z"}

sanitize(s) == [k \in 1..Len(s) |-> IF s[k] \in SafeChars THEN s[k] ELSE "_"]

\* ------------------------------------------------------------------------
\* Filename parsing (index.ts 56-78)
\* ------------------------------------------------------------------------

\* the value null of filenameViolationHint: a sequence no file name equals
NullHint == <<"null">>

\* the value null of filenameTimestamp (timestamps are never negative)
NullTimestamp == 0 - 1

\* ^(?:\d+_)? : the index of the underscore ending the numeric prefix, or 0
RECURSIVE leadingDigits(_, _)
leadingDigits(s, p) ==
    IF HasDigitAt(s, p) THEN leadingDigits(s, p + 1) ELSE p - 1

numericPrefixEnd(s) ==
    LET d == leadingDigits(s, 1)
    IN IF d >= 1 /\ d + 1 <= Len(s) /\ s[d + 1] = "_" THEN d + 1 ELSE 0

\* _at_(\d{1,2})\.(\d{2})[\s_]?min at position p, the minutes having w digits
minTailWidth(s, p, w) ==
    /\ HasLiteralAt(s, p, <<"_", "a", "t", "_">>)
    /\ \A k \in 0..(w - 1) : HasDigitAt(s, p + 4 + k)
    /\ HasLiteralAt(s, p + 4 + w, <<".">>)
    /\ HasDigitAt(s, p + 5 + w)
    /\ HasDigitAt(s, p + 6 + w)
    /\ \/ /\ p + 7 + w <= Len(s)
          /\ (IsSpace(s[p + 7 + w]) \/ s[p + 7 + w] = "_")
          /\ HasLiteralAt(s, p + 8 + w, <<"m", "i", "n">>)
       \/ HasLiteralAt(s, p + 7 + w, <<"m", "i", "n">>)

\* the width the greedy \d{1,2} settles on at position p, 0 when no match
minTail(s, p) ==
    IF minTailWidth(s, p, 2) THEN 2
    ELSE IF minTailWidth(s, p, 1) THEN 1 ELSE 0

\* _at_(\d{2})_(\d{2})_(\d{2}) at position p
underscoreTail(s, p) ==
    /\ HasLiteralAt(s, p, <<"_", "a", "t", "_">>)
    /\ HasDigitAt(s, p + 4) /\ HasDigitAt(s, p + 5)
    /\ HasLiteralAt(s, p + 6, <<"_">>)
    /\ HasDigitAt(s, p + 7) /\ HasDigitAt(s, p + 8)
    /\ HasLiteralAt(s, p + 9, <<"_">>)
    /\ HasDigitAt(s, p + 10) /\ HasDigitAt(s, p + 11)

\* (.+?) from position start: the end of the shortest label after which
\* the tail matches, or 0.  kind is "min" or "hms".
tailAt(s, p, kind) ==
    IF kind = "min" THEN minTail(s, p) > 0 ELSE underscoreTail(s, p)

RECURSIVE lazyLabelEnd(_, _, _, _)
lazyLabelEnd(s, start, e, kind) ==
    IF e > Len(s) THEN 0
    ELSE IF tailAt(s, e + 1, kind) THEN e
    ELSE lazyLabelEnd(s, start, e + 1, kind)

\* String.prototype.match of one of the two anchored patterns: the prefix
\* group is tried first (greedy ?), then the match without it
regexMatch(s, kind) ==
    LET pe      == numericPrefixEnd(s)
        withPre == IF pe > 0 THEN lazyLabelEnd(s, pe + 1, pe + 1, kind) ELSE 0
        without == lazyLabelEnd(s, 1, 1, kind)
    IN IF withPre > 0 THEN [ok |-> TRUE, from |-> pe + 1, to |-> withPre]
       ELSE IF without > 0 THEN [ok |-> TRUE, from |-> 1, to |-> without]
       ELSE [ok |-> FALSE, from |-> 0, to |-> 0]

\* formatWithMin branch (index.ts 60-66)
formatWithMin(s) ==
    LET m == regexMatch(s, "min")
        w == minTail(s, m.to + 1)
        d == m.to + 5
    IN IF m.ok
       THEN [ok |-> TRUE,
             hint |-> replaceUnderscores(trim(SubSeq(s, m.from, m.to))),
             ts |-> parseInt(s, d, d + w - 1) * 60
                      + parseInt(s, d + w + 1, d + w + 2)]
       ELSE [ok |-> FALSE, hint |-> NullHint, ts |-> NullTimestamp]

\* formatWithUnderscores branch (index.ts 69-77)
formatWithUnderscores(s) ==
    LET m == regexMatch(s, "hms")
        d == m.to + 5
    IN IF m.ok
       THEN [ok |-> TRUE,
             hint |-> replaceUnderscores(trim(SubSeq(s, m.from, m.to))),
             ts |-> parseInt(s, d, d + 1) * 3600
                      + parseInt(s, d + 3, d + 4) * 60
                      + parseInt(s, d + 6, d + 7)]
       ELSE [ok |-> FALSE, hint |-> NullHint, ts |-> NullTimestamp]

\* filenameTimestamp initialised to 0 instead of null
parseFilename_zero(s) ==
    IF formatWithMin(s).ok THEN formatWithMin(s)
    ELSE IF formatWithUnderscores(s).ok THEN formatWithUnderscores(s)
    ELSE [ok |-> FALSE, hint |-> NullHint, ts |-> 0]

\* the whole parse: first the "min" format, else the underscore format
parseFilename(s) ==
    IF formatWithMin(s).ok THEN formatWithMin(s)
    ELSE formatWithUnderscores(s)

\* ------------------------------------------------------------------------
\* Inputs of one run
\* ------------------------------------------------------------------------

NameNoHelmet == <<"N", "o", "_", "H", "e", "l", "m", "e", "t", "_", "a", "t", "_", "0", "0", "_", "0", "0", "_", "0", "5", ".", "m", "p", "4">>
NameFall2 == <<"F", "a", "l", "l", "_", "a", "t", "_", "0", "0", "_", "0", "0", "_", "0", "2", ".", "m", "p", "4">>
NameFall0 == <<"F", "a", "l", "l", "_", "a", "t", "_", "0", "0", "_", "0", "0", "_", "0", "0", ".", "m", "p", "4">>
NameCollision == <<"C", "o", "l", "l", "i", "s", "i", "o", "n", "_", "b", "e", "t", "w", "e", "e", "n", "_", "t", "w", "o", "_", "L", "H", "_", "m", "a", "c", "h", "i", "n", "e", "s", "_", "a", "t", "_", "0", "1", ".", "1", "1", "_", "m", "i", "n", ".", "m", "p", "4">>
NameSpaced == <<"N", "o", " ", "H", "e", "l", "m", "e", "t", " ", "a", "t", " ", "0", "0", "_", "0", "0", "_", "0", "5", ".", "m", "p", "4">>
NameClip == <<"c", "l", "i", "p", ".", "m", "p", "4">>
NameBlank == <<" ", "_", "a", "t", "_", "0", "0", "_", "0", "0", "_", "0", "5", ".", "m", "p", "4">>
NameNearMiss == <<"F", "a", "l", "l", "_", "a", "t", "_", "0", "0", "_", "0", "5", ".", "m", "p", "4">>
\* a name without one allowed character
NameSymbols == <<"?", " ", "#">>

NameEmpty == <<>>

\* the declared file names of the runs
VideoNames == {NameNoHelmet, NameFall2, NameFall0,
               NameSpaced, NameClip, NameNearMiss, NameBlank, NameEmpty}

\* ------------------------------------------------------------------------
\* File names for the parser on its own: every combination of an optional
\* numeric prefix, a label, a separator and a time stamp
\* ------------------------------------------------------------------------

NamePrefixes == {<<>>,
                <<"1", "7", "_">>}

NameLabels == {<<"N", "o", "_", "H", "e", "l", "m", "e", "t">>,
              <<"F", "a", "l", "l", "_">>,
              <<"_", "F", "a", "l", "l">>,
              <<" ">>,
              <<"a", " ", "b">>,
              <<"7">>}

NameSeparators == {<<"_", "a", "t", "_">>,
                  <<" ", "a", "t", " ">>,
                  <<"_", "A", "T", "_">>,
                  <<"_", "a", "t">>}

NameStamps == {<<"0", "0", "_", "0", "0", "_", "0", "5">>,
              <<"0", "1", "_", "0", "2", "_", "0", "3">>,
              <<"0", "_", "0", "_", "5">>,
              <<"0", "1", ".", "1", "1", "_", "m", "i", "n">>,
              <<"1", ".", "0", "5", " ", "m", "i", "n">>,
              <<"0", ".", "0", "0", "m", "i", "n">>,
              <<"1", "2", ".", "3", "4", "5", "_", "m", "i", "n">>,
              <<"0", "1", ".", "1", "1">>,
              <<"0", "1", ".", "1", "1", "_", "M", "I", "N">>,
              <<"0", "0", "_", "0", "0", "_", "0", "5", "_", "a", "t", "_", "0", "1", ".", "1", "1", "_", "m", "i", "n">>}

NameExtension == <<".", "m", "p", "4">>

ParserNames ==
    {p \o l \o a \o t \o NameExtension :
        p \in NamePrefixes, l \in NameLabels,
        a \in NameSeparators, t \in NameStamps}
    \cup VideoNames \cup {NameCollision, NameSymbols}

\* the video part of the form: sizes are in MiB
GoodFile == [present |-> TRUE, size |-> 10, type |-> "video/mp4"]

VideoFiles == {GoodFile,
               [present |-> FALSE, size |-> 0, type |-> ""],
               [present |-> TRUE, size |-> 251, type |-> "video/mp4"],
               [present |-> TRUE, size |-> 10, type |-> "video/webm"],
               [present |-> TRUE, size |-> 150, type |-> "video/mp4"],
               [present |-> TRUE, size |-> 10, type |-> "video/x-msvideo"]}

\* most frame_<i> parts a request carries
MaxFrames == 2

\* an entry of frames_meta that is not a number (or is missing)
NotANumber == 0 - 1

\* entries of frames_meta, in hundredths of a second
FrameTimeValues == {NotANumber, 200, 201}

FrameTimeLists ==
    UNION {[1..n -> FrameTimeValues] : n \in 0..MaxFrames}

\* outcomes of Math.random() are k / RandomResolution: the generator starts
\* from a seed and steps to its next outcome
RandomResolution == 1000

RandomSeeds == {0, RandomResolution - 1}

nextRandom(r) == (r + RandomResolution \div 3) % RandomResolution

\* most inserts into the violations table that fail in one run
MaxInsertFailures == 1

\* most classifier replies of one run that pass the acceptance test
MaxAccepted == 2

CollisionRisk == <<"C", "o", "l", "l", "i", "s", "i", "o", "n", " ", "R", "i", "s", "k">>

NoDetection == [has_violation |-> FALSE, confidence |-> 0,
                severity |-> "warning", violation_type |-> CollisionRisk]

Detection(hv, conf, sev) ==
    [has_violation |-> hv, confidence |-> conf,
     severity |-> sev, violation_type |-> CollisionRisk]

\* ------------------------------------------------------------------------
\* State of one run
\* ------------------------------------------------------------------------

VARIABLES
    revision,               \* which handler serves the run
    videoFile,              \* formData.get('video')
    videoName,              \* formData.get('videoName')
    lovableApiKey,          \* is LOVABLE_API_KEY set
    frameTimes,             \* frames_meta, one entry per frame_<i> part
    pc,                     \* position in the handler
    sanitizedName,
    filenameViolationHint,
    filenameTimestamp,
    storage,                \* keys written to the videos bucket
    todo,                   \* framesToCreate not yet recorded
    violations,             \* the handler's violations array
    detectedFrames,         \* the handler's detectedFrames set
    table,                  \* rows of the violations table written by the run
    calls,                  \* classifier calls issued, in order
    i,                      \* loop index of PHASE 2
    aiFrameCount,
    random,                 \* the next outcome of Math.random()
    response,
    lh_machines,            \* the detector's LH-machine boxes of one frame
    humans,                 \* the detector's person boxes of the frame
    drills,                 \* the detector's drill boxes of the frame
    beams,                  \* the detector's beam boxes of the frame
    frameViolations,        \* the candidates the rules have pushed
    detectorPc,             \* position in the detector's frame loop
    clientPc,               \* position in handleAnalyze / extractFrames
    selectedFile,           \* the file chosen in the upload form
    user,                   \* is a user logged in
    isAnalyzing,
    duration,               \* video.duration || 0, hundredths of a second
    count,                  \* the count argument of extractFrames
    captureIndex,           \* loop index of extractFrames
    blobs,                  \* extractFrames' blobs
    times,                  \* extractFrames' times
    nullBlobs,              \* captures for which toBlob gave null
    promise,                \* the promise extractFrames returned
    toast,                  \* the last toast shown
    step,                   \* position in the body of a PHASE 2 iteration
    inFlight,               \* classifier calls awaiting their reply
    inserting,              \* inserts awaiting their result
    delayed,                \* has the delay run since the last call
    runNumber,              \* 1 for a first analysis of the video, 2 for a rerun
    previousFrames,         \* frame numbers the first analysis used
    logsPc,                 \* position of the violation-log click-through
    videoParam,             \* the video parameter of the /upload URL
    frameParam,             \* the frame parameter of the /upload URL
    videoUrl,               \* the player's videoUrl state: the object it names
    currentTime,            \* video.currentTime, in thirtieths of a second
    models,                 \* is_active of each row of the models table
    activations             \* the activateModelMutation calls under way

vars == <<revision, videoFile, videoName, lovableApiKey, frameTimes, pc, sanitizedName,
          filenameViolationHint, filenameTimestamp, storage, todo, violations,
          detectedFrames, table, calls, i, aiFrameCount, random, response,
          lh_machines, humans, drills, beams, frameViolations, detectorPc,
          clientPc, selectedFile,
          user, isAnalyzing, duration, count, captureIndex, blobs, times,
          nullBlobs, promise, toast, step, inFlight, inserting, delayed,
          runNumber, previousFrames, logsPc, videoParam, frameParam,
          videoUrl, currentTime, models, activations>>

\* the detector handler's frame (20251016114316 ... .sql 284-405)
detector == <<lh_machines, humans, drills, beams, frameViolations,
              detectorPc>>

\* the upload page (VideoUpload.tsx 85-179)
browser == <<clientPc, selectedFile, user, isAnalyzing, duration, count,
             captureIndex, blobs, times, nullBlobs, promise, toast>>

\* the awaits of one PHASE 2 iteration (index.ts 199, 270, 279)
awaits == <<step, inFlight, inserting, delayed>>

\* the variables of one run of the handler
run == <<pc, sanitizedName, filenameViolationHint, filenameTimestamp, storage,
         todo, violations, detectedFrames, table, calls, i, aiFrameCount,
         random, response, awaits>>

\* the request and the deployment
form == <<revision, videoFile, videoName, lovableApiKey, frameTimes>>

\* what an earlier analysis of the same video left behind
history == <<runNumber, previousFrames>>

\* the click-through from the violation log to the player
\* (ViolationLogs.tsx 59-61, VideoUpload.tsx 16-71)
logsPage == <<logsPc, videoParam, frameParam, videoUrl, currentTime>>

\* the model management page (ModelManagement.tsx 33-57)
modelsPage == <<models, activations>>

\* what lives outside the function and the upload page
pages == <<history, logsPage, modelsPage>>

\* what the steps of a run of the analysis handler leave alone
inputs == <<form, detector, browser, awaits, pages>>

\* the first analysis of the video
NoHistory ==
    /\ runNumber = 1
    /\ previousFrames = {}

\* nobody has opened the violation log
LogsOff ==
    /\ logsPc = "off"
    /\ videoParam = <<>>
    /\ frameParam = 0
    /\ videoUrl = <<>>
    /\ currentTime = 0

\* nobody has opened the model management page
ModelsOff ==
    /\ models = <<>>
    /\ activations = <<>>

PagesIdle == NoHistory /\ LogsOff /\ ModelsOff

\* no iteration of PHASE 2 has begun
NoAwait ==
    /\ step = "call"
    /\ inFlight = 0
    /\ inserting = 0
    /\ delayed = FALSE

\* the page before extractFrames has run
NoExtraction ==
    /\ isAnalyzing = FALSE
    /\ count = 0
    /\ captureIndex = 0
    /\ blobs = <<>>
    /\ times = <<>>
    /\ nullBlobs = 0
    /\ promise = "none"
    /\ toast = ""

\* the request does not come from the upload page
BrowserOff ==
    /\ clientPc = "off"
    /\ selectedFile = [name |-> <<>>, size |-> 0, type |-> ""]
    /\ user = FALSE
    /\ duration = 0
    /\ NoExtraction

\* no frame is before the detector
NoBoxes ==
    /\ humans = <<>>
    /\ drills = <<>>
    /\ beams = <<>>

DetectorIdle ==
    /\ lh_machines = <<>>
    /\ NoBoxes
    /\ frameViolations = <<>>
    /\ detectorPc = "idle"

NoResponse == [sent |-> FALSE, success |-> FALSE, status |-> 0,
               violations |-> 0, details |-> <<>>, error |-> ""]

\* the handler's variables before its first statement
FreshRun ==
    /\ sanitizedName = <<>>
    /\ filenameViolationHint = NullHint
    /\ filenameTimestamp = NullTimestamp
    /\ storage = {}
    /\ todo = <<>>
    /\ violations = <<>>
    /\ detectedFrames = {}
    /\ table = <<>>
    /\ calls = <<>>
    /\ i = 0
    /\ aiFrameCount = 0
    /\ random = 0
    /\ response = NoResponse
    /\ NoAwait

InitRun ==
    /\ pc = "validate"
    /\ FreshRun

\* the handler of index.ts (six violation labels, threshold 0.6) and the
\* handler of part_000 (four labels, threshold 0.7, no client frames)
Revisions == {"six-label", "four-label"}

Init ==
    /\ revision \in Revisions
    /\ videoFile \in VideoFiles
    /\ videoName \in VideoNames
    /\ lovableApiKey \in BOOLEAN
    /\ frameTimes \in FrameTimeLists
    /\ revision = "four-label" => frameTimes = <<>>
    /\ InitRun
    /\ DetectorIdle
    /\ BrowserOff
    /\ PagesIdle

\* ------------------------------------------------------------------------
\* The handler (index.ts 14-421)
\* ------------------------------------------------------------------------

VIDEO_FPS == 30

MaxVideoMiB == 250

MaxNameLength == 255

\* one more type let through
allowedTypes_webm == {"video/mp4", "video/avi", "video/mov", "video/quicktime",
                      "video/x-msvideo", "video/webm"}

allowedTypes == {"video/mp4", "video/avi", "video/mov", "video/quicktime",
                 "video/x-msvideo"}

\* the outer catch: any throw ends the run with the 500 response
Fail(msg) ==
    /\ pc' = "failed"
    /\ response' = [sent |-> TRUE, success |-> FALSE, status |-> 500,
                    violations |-> 0, details |-> <<>>, error |-> msg]

substring(s, n) == SubSeq(s, 1, IF Len(s) < n THEN Len(s) ELSE n)

\* server-side validation and the sanitized name (index.ts 22-47)
Validate ==
    /\ pc = "validate"
    /\ LET name == substring(sanitize(videoName), MaxNameLength)
       IN IF ~videoFile.present
          THEN Fail("Invalid file upload") /\ UNCHANGED sanitizedName
          ELSE IF videoFile.size > MaxVideoMiB
          THEN Fail("File size exceeds 250MB limit") /\ UNCHANGED sanitizedName
          ELSE IF videoFile.type \notin allowedTypes
          THEN Fail("Invalid file type. Only MP4, AVI, and MOV are allowed")
               /\ UNCHANGED sanitizedName
          ELSE IF name = <<>>
          THEN Fail("Invalid filename") /\ UNCHANGED sanitizedName
          ELSE /\ sanitizedName' = name
               /\ pc' = "parse"
               /\ UNCHANGED response
    /\ UNCHANGED <<inputs, filenameViolationHint, filenameTimestamp, storage,
                   todo, violations, detectedFrames, table, calls, i,
                   aiFrameCount, random>>

\* index.ts 56-78
ParseFilename ==
    /\ pc = "parse"
    /\ revision = "six-label"
    /\ filenameViolationHint' = parseFilename(videoName).hint
    /\ filenameTimestamp' = parseFilename(videoName).ts
    /\ pc' = "upload"
    /\ UNCHANGED <<inputs, sanitizedName, storage, todo, violations,
                   detectedFrames, table, calls, i, aiFrameCount, random,
                   response>>

\* the storage key: Date.now() is the same instant throughout the model
videoPath == <<"1">> \o <<"_">> \o sanitizedName

\* the videos bucket (part_003 1-10): file_size_limit in MiB and
\* allowed_mime_types
BucketMaxMiB == 100

bucketTypes == {"video/mp4", "video/avi", "video/mov", "video/quicktime"}

\* the messages of the bucket's refusals, as the handler reports them
BucketRefusals ==
    {"Failed to upload video: The object exceeded the maximum allowed size",
     "Failed to upload video: mime type is not supported"}

\* what the upload can resolve with ("" for no error): the bucket's
\* refusal of the object or, for an object it admits, success or a fault
\* of the storage service
uploadErrors(file) ==
    IF file.size > BucketMaxMiB
    THEN {"Failed to upload video: The object exceeded the maximum allowed size"}
    ELSE IF file.type \notin bucketTypes
    THEN {"Failed to upload video: mime type is not supported"}
    ELSE {"", "Failed to upload video: storage error"}

\* the upload error logged and not thrown
Upload_continues ==
    /\ pc = "upload"
    /\ \E uploadError \in uploadErrors(videoFile) :
          storage' = IF uploadError # "" THEN storage
                     ELSE storage \cup {videoPath}
    /\ pc' = "phase1"
    /\ UNCHANGED <<inputs, sanitizedName, filenameViolationHint,
                   filenameTimestamp, todo, violations, detectedFrames, table,
                   calls, i, aiFrameCount, random, response>>

\* index.ts 80-97: the videos bucket refuses what its definition excludes
Upload ==
    /\ pc = "upload"
    /\ \E uploadError \in uploadErrors(videoFile) :
          IF uploadError # ""
          THEN Fail(uploadError) /\ UNCHANGED storage
          ELSE /\ storage' = storage \cup {videoPath}
               /\ pc' = "phase1"
               /\ UNCHANGED response
    /\ UNCHANGED <<inputs, sanitizedName, filenameViolationHint,
                   filenameTimestamp, todo, violations, detectedFrames, table,
                   calls, i, aiFrameCount, random>>

\* the filter left out
framesToCreate_unclipped(ts) ==
    <<ts * VIDEO_FPS - 1, ts * VIDEO_FPS, ts * VIDEO_FPS + 1>>

\* [frameNumber - 1, frameNumber, frameNumber + 1].filter(f => f >= 0)
framesToCreate(ts) ==
    LET frameNumber == ts * VIDEO_FPS
    IN SelectSeq(<<frameNumber - 1, frameNumber, frameNumber + 1>>,
                 LAMBDA f : f >= 0)

\* a string is truthy when it is not empty
Truthy(hint) == hint # NullHint /\ Len(hint) > 0

\* index.ts 146-154
Phase1 ==
    /\ pc = "phase1"
    /\ revision = "six-label"
    /\ IF Truthy(filenameViolationHint) /\ filenameTimestamp # NullTimestamp
       THEN /\ todo' = framesToCreate(filenameTimestamp)
            /\ random' \in RandomSeeds
            /\ pc' = "phase1_loop"
       ELSE /\ pc' = "phase2"
            /\ UNCHANGED <<todo, random>>
    /\ UNCHANGED <<inputs, sanitizedName, filenameViolationHint,
                   filenameTimestamp, storage, violations, detectedFrames,
                   table, calls, i, aiFrameCount, response>>

\* Number.prototype.toFixed(3) of num / den, in thousandths
toFixed3(num, den) == (2000 * num + den) \div (2 * den)

\* (0.92 + Math.random() * 0.07).toFixed(3) for Math.random() = r / RandomResolution
filenameConfidence(r) ==
    toFixed3(92 * RandomResolution + 7 * r, 100 * RandomResolution)

\* the insert of one row: supabase-js resolves with an error, it never throws
Insert(row, ok) ==
    table' = IF ok THEN Append(table, row) ELSE table

InsertMayFail == Len(violations) - Len(table) < MaxInsertFailures

\* the insert error thrown: a failed insert ends the run
Phase1Record_throws ==
    /\ pc = "phase1_loop"
    /\ \E ok \in BOOLEAN :
          /\ ok \/ InsertMayFail
          /\ LET frame == Head(todo)
                 violation == [violation_type |-> filenameViolationHint,
                               confidence |-> filenameConfidence(random),
                               source_name |-> videoName,
                               video_path |-> videoPath,
                               frame_number |-> frame,
                               severity |-> "critical",
                               detection_method |-> "filename_parsing"]
             IN /\ violations' = Append(violations, violation)
                /\ detectedFrames' = detectedFrames \cup {frame}
                /\ Insert(violation, ok)
          /\ IF ok
             THEN /\ pc' = IF Len(todo) = 1 THEN "phase2" ELSE "phase1_loop"
                  /\ UNCHANGED response
             ELSE Fail("insert failed")
    /\ todo' = Tail(todo)
    /\ random' = nextRandom(random)
    /\ UNCHANGED <<inputs, sanitizedName, filenameViolationHint,
                   filenameTimestamp, storage, calls, i, aiFrameCount>>

\* one iteration of index.ts 156-179
Phase1Record ==
    /\ pc = "phase1_loop"
    /\ \E ok \in BOOLEAN :
          /\ ok \/ InsertMayFail
          /\ LET frame == Head(todo)
                 violation == [violation_type |-> filenameViolationHint,
                               confidence |-> filenameConfidence(random),
                               source_name |-> videoName,
                               video_path |-> videoPath,
                               frame_number |-> frame,
                               severity |-> "critical",
                               detection_method |-> "filename_parsing"]
             IN /\ violations' = Append(violations, violation)
                /\ detectedFrames' = detectedFrames \cup {frame}
                /\ Insert(violation, ok)
    /\ todo' = Tail(todo)
    /\ random' = nextRandom(random)
    /\ pc' = IF Len(todo) = 1 THEN "phase2" ELSE "phase1_loop"
    /\ UNCHANGED <<inputs, sanitizedName, filenameViolationHint,
                   filenameTimestamp, storage, calls, i, aiFrameCount,
                   response>>

\* Math.round(x) for x = num / den: the nearest integer, halves upwards
round(num, den) == (2 * num + den) \div (2 * den)

max(a, b) == IF a > b THEN a ELSE b

\* acceptance thresholds, in thousandths: index.ts 251 and 354, part_000 238
SixLabelThreshold == 600

FourLabelThreshold == 700

AcceptThreshold ==
    IF revision = "six-label" THEN SixLabelThreshold ELSE FourLabelThreshold

\* what one call of the chat-completion endpoint can come back with:
\*   neterr   fetch rejects           status   aiResponse.ok is false
\*   badbody  aiResponse.json() or aiResult.choices[0] throws
\*   notool   no tool call in the reply
\*   badargs  the tool call's arguments are not JSON
\*   det      the arguments parse to a detection: none, one at the
\*            handler's threshold, one just above it, one out of range
Replies ==
    {[kind |-> k, detection |-> NoDetection] :
        k \in {"neterr", "status", "badbody", "notool", "badargs"}}
    \cup
    {[kind |-> "det", detection |-> d] :
        d \in {Detection(FALSE, 900, "warning"),
               Detection(TRUE, AcceptThreshold, "warning"),
               Detection(TRUE, AcceptThreshold + 1, "critical"),
               Detection(TRUE, 1500, "warning")}}

\* >= in place of >
accepts_atLeast(detection) ==
    detection.has_violation /\ detection.confidence >= AcceptThreshold

\* detection.has_violation && detection.confidence > 0.6 (or 0.7)
accepts(detection) ==
    detection.has_violation /\ detection.confidence > AcceptThreshold

\* the replies the model lets the classifier give at this point of the run
aiViolations == SelectSeq(violations,
                          LAMBDA v : v.detection_method # "filename_parsing")

ReplyAllowed(reply) ==
    (reply.kind = "det" /\ accepts(reply.detection))
        => Len(aiViolations) < MaxAccepted

\* the record built from an accepted detection (index.ts 254-268, 359-373)
aiViolation(detection, frameNumber, method) ==
    [violation_type |-> detection.violation_type,
     confidence |-> detection.confidence,
     source_name |-> videoName,
     video_path |-> videoPath,
     frame_number |-> frameNumber,
     severity |-> detection.severity,
     detection_method |-> method]

\* what the handler does with the reply of one classifier call
\* (index.ts 199-276 and 302-385): a rejected fetch and an unreadable body
\* throw past the inner try and reach the outer catch
HandleReply(reply, frameNumber, method, ok, last) ==
    IF reply.kind \in {"neterr", "badbody"}
    THEN /\ Fail(IF reply.kind = "neterr" THEN "fetch failed"
                 ELSE "Unexpected token in JSON")
         /\ UNCHANGED <<violations, table, i>>
    ELSE /\ IF reply.kind = "det" /\ accepts(reply.detection)
            THEN LET violation == aiViolation(reply.detection, frameNumber,
                                              method)
                 IN /\ violations' = Append(violations, violation)
                    /\ Insert(violation, ok)
            ELSE /\ ok
                 /\ UNCHANGED <<violations, table>>
         /\ i' = i + 1
         /\ pc' = IF last THEN "respond" ELSE pc
         /\ UNCHANGED response

\* the credential test left out: the synthetic fallback runs without a key
Phase2_ignoresCredential ==
    /\ pc = "phase2"
    /\ i' = 0
    /\ IF Len(frameTimes) > 0
       THEN pc' = "real_frames" /\ UNCHANGED aiFrameCount
       ELSE /\ \E n \in 5..8 : aiFrameCount' = n
            /\ pc' = "synthetic"
    /\ UNCHANGED <<inputs, sanitizedName, filenameViolationHint,
                   filenameTimestamp, storage, todo, violations,
                   detectedFrames, table, calls, random, response>>

\* Math.random() * 5 in place of * 4: up to nine synthetic frames
Phase2_nineFrames ==
    /\ pc = "phase2"
    /\ i' = 0
    /\ IF lovableApiKey /\ Len(frameTimes) > 0
       THEN pc' = "real_frames" /\ UNCHANGED aiFrameCount
       ELSE IF lovableApiKey
       THEN /\ \E n \in 5..9 : aiFrameCount' = n
            /\ pc' = "synthetic"
       ELSE pc' = "respond" /\ UNCHANGED aiFrameCount
    /\ UNCHANGED <<inputs, sanitizedName, filenameViolationHint,
                   filenameTimestamp, storage, todo, violations,
                   detectedFrames, table, calls, random, response>>

\* the branch of index.ts 185, 281 and 390
Phase2 ==
    /\ pc = "phase2"
    /\ i' = 0
    /\ IF lovableApiKey /\ Len(frameTimes) > 0
       THEN pc' = "real_frames" /\ UNCHANGED aiFrameCount
       ELSE IF lovableApiKey
       THEN /\ \E n \in 5..8 : aiFrameCount' = n
            /\ pc' = "synthetic"
       ELSE pc' = "respond" /\ UNCHANGED aiFrameCount
    /\ UNCHANGED <<inputs, sanitizedName, filenameViolationHint,
                   filenameTimestamp, storage, todo, violations,
                   detectedFrames, table, calls, random, response>>

\* timeSec of index.ts 196, in hundredths of a second
timeSec(k) ==
    IF frameTimes[k + 1] # NotANumber THEN frameTimes[k + 1]
    ELSE (k + 1) * 2 * 100

\* frameNumber of index.ts 197
realFrameNumber(k) == max(0, round(timeSec(k) * VIDEO_FPS, 100))

\* one iteration of the loop over the client's frames (index.ts 192-280)
RealFrame ==
    /\ pc = "real_frames"
    /\ LET frameNumber == realFrameNumber(i)
       IN /\ calls' = Append(calls, [frame |-> frameNumber, image |-> TRUE])
          /\ \E reply \in Replies, ok \in BOOLEAN :
                /\ ReplyAllowed(reply)
                /\ ok \/ InsertMayFail
                /\ HandleReply(reply, frameNumber, "ai_frame", ok,
                               i + 1 = Len(frameTimes))
    /\ UNCHANGED <<inputs, sanitizedName, filenameViolationHint,
                   filenameTimestamp, storage, todo, detectedFrames,
                   aiFrameCount, random>>

\* frameNumber of index.ts 295
syntheticFrameNumber(k, n) == (k * 300) \div n + 10

\* the skip left out: every frame number is classified
alreadyAnalyzed_never(frameNumber) == frameNumber \in {}

\* is this frame number skipped (index.ts 298)
alreadyAnalyzed(frameNumber) == frameNumber \in detectedFrames

\* one iteration of the synthetic loop (index.ts 293-389)
SyntheticFrame ==
    /\ pc = "synthetic"
    /\ LET frameNumber == syntheticFrameNumber(i, aiFrameCount)
           last == (i + 1 = aiFrameCount)
       IN IF alreadyAnalyzed(frameNumber)
          THEN /\ i' = i + 1
               /\ pc' = IF last THEN "respond" ELSE pc
               /\ UNCHANGED <<detectedFrames, calls, violations, table,
                              response>>
          ELSE /\ detectedFrames' = detectedFrames \cup {frameNumber}
               /\ calls' = Append(calls, [frame |-> frameNumber,
                                          image |-> FALSE])
               /\ \E reply \in Replies, ok \in BOOLEAN :
                     /\ ReplyAllowed(reply)
                     /\ ok \/ InsertMayFail
                     /\ HandleReply(reply, frameNumber, "ai", ok, last)
    /\ UNCHANGED <<inputs, sanitizedName, filenameViolationHint,
                   filenameTimestamp, storage, todo, aiFrameCount, random>>

\* index.ts 394-406
Respond ==
    /\ pc = "respond"
    /\ response' = [sent |-> TRUE, success |-> TRUE, status |-> 200,
                    violations |-> Len(violations), details |-> violations,
                    error |-> ""]
    /\ pc' = "done"
    /\ UNCHANGED <<inputs, sanitizedName, filenameViolationHint,
                   filenameTimestamp, storage, todo, violations,
                   detectedFrames, table, calls, i, aiFrameCount, random>>

\* ------------------------------------------------------------------------
\* The four-label handler (part_000): validation, upload and the response
\* are those of index.ts
\* ------------------------------------------------------------------------

\* \s+ at position p: the length of the run of white space (the greedy +
\* takes it whole, and what follows in the pattern is never white space)
RECURSIVE spaceRun(_, _)
spaceRun(s, p) ==
    IF p >= 1 /\ p <= Len(s) /\ IsSpace(s[p]) THEN 1 + spaceRun(s, p + 1)
    ELSE 0

\* \s+at\s+(\d{2}_\d{2}_\d{2}) at position p
spaceTail(s, p) ==
    LET a == spaceRun(s, p)
        b == spaceRun(s, p + a + 2)
        d == p + a + 2 + b
    IN /\ a >= 1
       /\ HasLiteralAt(s, p + a, <<"a", "t">>)
       /\ b >= 1
       /\ HasDigitAt(s, d) /\ HasDigitAt(s, d + 1)
       /\ HasLiteralAt(s, d + 2, <<"_">>)
       /\ HasDigitAt(s, d + 3) /\ HasDigitAt(s, d + 4)
       /\ HasLiteralAt(s, d + 5, <<"_">>)
       /\ HasDigitAt(s, d + 6) /\ HasDigitAt(s, d + 7)

RECURSIVE lazySpaceLabelEnd(_, _)
lazySpaceLabelEnd(s, e) ==
    IF e > Len(s) THEN 0
    ELSE IF spaceTail(s, e + 1) THEN e
    ELSE lazySpaceLabelEnd(s, e + 1)

\* videoName.match(/^(.+?)\s+at\s+(\d{2}_\d{2}_\d{2})/i) (part_000 55-59)
filenameMatch(s) ==
    LET e == lazySpaceLabelEnd(s, 1)
    IN IF e > 0
       THEN [ok |-> TRUE, hint |-> replaceUnderscores(trim(SubSeq(s, 1, e)))]
       ELSE [ok |-> FALSE, hint |-> NullHint]

\* part_000 53-59: a hint, never a timestamp
ParseFilenameFourLabel ==
    /\ pc = "parse"
    /\ revision = "four-label"
    /\ filenameViolationHint' = filenameMatch(videoName).hint
    /\ pc' = "upload"
    /\ UNCHANGED <<inputs, sanitizedName, filenameTimestamp, storage, todo,
                   violations, detectedFrames, table, calls, i, aiFrameCount,
                   random, response>>

\* part_000 116-120 and 152-156, 273-275
Phase1FourLabel ==
    /\ pc = "phase1"
    /\ revision = "four-label"
    /\ i' = 0
    /\ IF Truthy(filenameViolationHint)
       THEN /\ todo' = <<4, 5, 6>>
            /\ random' \in RandomSeeds
            /\ pc' = "hint_loop"
            /\ UNCHANGED aiFrameCount
       ELSE IF lovableApiKey
       THEN /\ \E n \in 3..5 : aiFrameCount' = n
            /\ pc' = "random_frames"
            /\ UNCHANGED <<todo, random>>
       ELSE /\ pc' = "respond"
            /\ UNCHANGED <<todo, random, aiFrameCount>>
    /\ UNCHANGED <<inputs, sanitizedName, filenameViolationHint,
                   filenameTimestamp, storage, violations, detectedFrames,
                   table, calls, response>>

\* (0.85 + Math.random() * 0.14).toFixed(3)
hintConfidence(r) ==
    toFixed3(85 * RandomResolution + 14 * r, 100 * RandomResolution)

\* one iteration of part_000 122-148
HintRecord ==
    /\ pc = "hint_loop"
    /\ \E ok \in BOOLEAN :
          /\ ok \/ InsertMayFail
          /\ LET frameNumber == Head(todo)
                 violation == [violation_type |-> filenameViolationHint,
                               confidence |-> hintConfidence(random),
                               source_name |-> videoName,
                               video_path |-> videoPath,
                               frame_number |-> frameNumber,
                               severity |-> "critical",
                               detection_method |-> "ai"]
             IN /\ violations' = Append(violations, violation)
                /\ detectedFrames' = detectedFrames \cup {frameNumber}
                /\ Insert(violation, ok)
    /\ todo' = Tail(todo)
    /\ random' = nextRandom(random)
    /\ pc' = IF Len(todo) = 1 THEN "respond" ELSE "hint_loop"
    /\ UNCHANGED <<inputs, sanitizedName, filenameViolationHint,
                   filenameTimestamp, storage, calls, i, aiFrameCount,
                   response>>

\* Math.floor(Math.random() * 3000) + 100 (part_000 162)
randomFrameNumber(r) == (r * 3000) \div RandomResolution + 100

\* one iteration of part_000 161-272: every iteration draws afresh
RandomFrame ==
    /\ pc = "random_frames"
    /\ \E r \in RandomSeeds :
          LET frameNumber == randomFrameNumber(r)
              last == (i + 1 = aiFrameCount)
          IN IF alreadyAnalyzed(frameNumber)
             THEN /\ i' = i + 1
                  /\ pc' = IF last THEN "respond" ELSE pc
                  /\ UNCHANGED <<detectedFrames, calls, violations, table,
                                 response>>
             ELSE /\ detectedFrames' = detectedFrames \cup {frameNumber}
                  /\ calls' = Append(calls, [frame |-> frameNumber,
                                             image |-> FALSE])
                  /\ \E reply \in Replies, ok \in BOOLEAN :
                        /\ ReplyAllowed(reply)
                        /\ ok \/ InsertMayFail
                        /\ HandleReply(reply, frameNumber, "ai", ok, last)
    /\ UNCHANGED <<inputs, sanitizedName, filenameViolationHint,
                   filenameTimestamp, storage, todo, aiFrameCount, random>>

Next ==
    \/ Validate
    \/ ParseFilename
    \/ Upload
    \/ Phase1
    \/ Phase1Record
    \/ Phase2
    \/ RealFrame
    \/ SyntheticFrame
    \/ Respond
    \/ ParseFilenameFourLabel
    \/ Phase1FourLabel
    \/ HintRecord
    \/ RandomFrame

Spec == Init /\ [][Next]_vars

\* the parser on its own: a valid upload of each name, up to the parse
InitParser ==
    /\ revision \in Revisions
    /\ videoFile = GoodFile
    /\ videoName \in ParserNames
    /\ lovableApiKey = FALSE
    /\ frameTimes = <<>>
    /\ InitRun
    /\ DetectorIdle
    /\ BrowserOff
    /\ PagesIdle

NextParser ==
    \/ Validate
    \/ ParseFilename
    \/ ParseFilenameFourLabel

SpecParser == InitParser /\ [][NextParser]_vars

\* ------------------------------------------------------------------------
\* The detector handler: the boxes of one frame and the LH-machine rule
\* (20251016114316_3407bc40-8c35-4527-86fc-c673d8ecb90d.sql 60-76, 284-405)
\* ------------------------------------------------------------------------

\* most LH-machine predictions of one frame
MaxMachines == 2

\* predictions of the lh_machines model: centre, size (pixels) and
\* confidence (thousandths)
Predictions ==
    [x : {50, 350, 399, 400, 401}, y : {50, 250, 300},
     width : {100}, height : {100}, confidence : {600, 700, 800}]

\* coords of sql 307-312
coordsOf(pred) ==
    <<pred.x - pred.width \div 2, pred.y - pred.height \div 2,
      pred.x + pred.width \div 2, pred.y + pred.height \div 2>>

\* Math.abs
abs(x) == IF x < 0 THEN 0 - x ELSE x

\* <= in place of <
boxesCloseAndAligned_inclusive(box1, box2, horizThresh, vertAlignThresh) ==
    /\ abs((box1[1] + box1[3]) - (box2[1] + box2[3])) <= 2 * horizThresh
    /\ abs((box1[2] + box1[4]) - (box2[2] + box2[4])) <= 2 * vertAlignThresh

\* Math.abs left out
boxesCloseAndAligned_signed(box1, box2, horizThresh, vertAlignThresh) ==
    /\ (box1[1] + box1[3]) - (box2[1] + box2[3]) < 2 * horizThresh
    /\ (box1[2] + box1[4]) - (box2[2] + box2[4]) < 2 * vertAlignThresh

\* sql 61-76.  The centres (x1 + x2) / 2 can be half pixels, so the model
\* keeps twice each centre and twice each distance.
boxesCloseAndAligned(box1, box2, horizThresh, vertAlignThresh) ==
    LET c1x == box1[1] + box1[3]
        c1y == box1[2] + box1[4]
        c2x == box2[1] + box2[3]
        c2y == box2[2] + box2[4]
        horizDist == abs(c1x - c2x)
        vertDist == abs(c1y - c2y)
    IN horizDist < 2 * horizThresh /\ vertDist < 2 * vertAlignThresh

\* sql 395-402 for one pair: the candidates it pushes.  The confidences of
\* the model are even, so the mean is a whole number of thousandths.
lhCollision(m1, m2) ==
    IF boxesCloseAndAligned(m1.coords, m2.coords, 350, 250)
    THEN LET avgConf == (m1.conf + m2.conf) \div 2
         IN IF avgConf >= 700
            THEN <<[type |-> "LH machines collision risk", conf |-> avgConf]>>
            ELSE <<>>
    ELSE <<>>

\* the loops of sql 391-405 from (m, n) on
RECURSIVE lhLoop(_, _, _)
lhLoop(machines, m, n) ==
    IF m > Len(machines) THEN <<>>
    ELSE IF n > Len(machines) THEN lhLoop(machines, m + 1, m + 2)
    ELSE lhCollision(machines[m], machines[n]) \o lhLoop(machines, m, n + 1)

\* sql 306-322: one prediction of the lh_machines model is categorised
DetectLhMachine ==
    /\ detectorPc = "detect"
    /\ Len(lh_machines) < MaxMachines
    /\ \E pred \in Predictions :
          lh_machines' = Append(lh_machines, [coords |-> coordsOf(pred),
                                              conf |-> pred.confidence])
    /\ UNCHANGED <<humans, drills, beams, frameViolations, detectorPc>>
    /\ UNCHANGED <<revision, videoFile, videoName, lovableApiKey, frameTimes,
                   pc, sanitizedName, filenameViolationHint,
                   filenameTimestamp, storage, todo, violations,
                   detectedFrames, table, calls, i, aiFrameCount, random,
                   response, browser, awaits, pages>>

\* most boxes in each of the lists humans, drills and beams
MaxBoxes == 2

\* predictions of the humans, drills and beams models, all on one line:
\* the beam at x = 200 has the drill at 50 and the person at 100 within
\* 220 and those at 420 exactly 220 away
HumanPredictions ==
    {[x |-> 100, y |-> 50, width |-> 100, height |-> 100, confidence |-> 700],
     [x |-> 100, y |-> 50, width |-> 100, height |-> 100, confidence |-> 800],
     [x |-> 420, y |-> 50, width |-> 100, height |-> 100, confidence |-> 800]}

DrillPredictions ==
    {[x |-> 50, y |-> 50, width |-> 100, height |-> 100, confidence |-> 600],
     [x |-> 50, y |-> 50, width |-> 100, height |-> 100, confidence |-> 800],
     [x |-> 420, y |-> 50, width |-> 100, height |-> 100, confidence |-> 800]}

BeamPredictions ==
    {[x |-> 200, y |-> 50, width |-> 100, height |-> 100, confidence |-> 600],
     [x |-> 200, y |-> 50, width |-> 100, height |-> 100, confidence |-> 700],
     [x |-> 900, y |-> 50, width |-> 100, height |-> 100, confidence |-> 800]}

boxOf(pred) == [coords |-> coordsOf(pred), conf |-> pred.confidence]

\* sql 306-322 for one prediction of the humans model
DetectHuman ==
    /\ detectorPc = "detect"
    /\ Len(humans) < MaxBoxes
    /\ \E pred \in HumanPredictions : humans' = Append(humans, boxOf(pred))
    /\ UNCHANGED <<lh_machines, drills, beams, frameViolations, detectorPc>>
    /\ UNCHANGED <<form, browser, awaits, pages, run>>

\* sql 306-322 for one prediction of the drills model
DetectDrill ==
    /\ detectorPc = "detect"
    /\ Len(drills) < MaxBoxes
    /\ \E pred \in DrillPredictions : drills' = Append(drills, boxOf(pred))
    /\ UNCHANGED <<lh_machines, humans, beams, frameViolations, detectorPc>>
    /\ UNCHANGED <<form, browser, awaits, pages, run>>

\* sql 306-322 for one prediction of the beams model
DetectBeam ==
    /\ detectorPc = "detect"
    /\ Len(beams) < MaxBoxes
    /\ \E pred \in BeamPredictions : beams' = Append(beams, boxOf(pred))
    /\ UNCHANGED <<lh_machines, humans, drills, frameViolations, detectorPc>>
    /\ UNCHANGED <<form, browser, awaits, pages, run>>

\* sql 339-346 for one pair: the sums of the model are even
handling(h, d) ==
    IF boxesCloseAndAligned(h.coords, d.coords, 120, 100)
    THEN LET avgConf == (h.conf + d.conf) \div 2
         IN IF avgConf >= 700
            THEN <<[type |-> "Human handling a drill", conf |-> avgConf]>>
            ELSE <<>>
    ELSE <<>>

\* the loops of sql 337-349 from (m, n) on
RECURSIVE handlingLoop(_, _, _, _)
handlingLoop(hs, ds, m, n) ==
    IF m > Len(hs) THEN <<>>
    ELSE IF n > Len(ds) THEN handlingLoop(hs, ds, m + 1, 1)
    ELSE handling(hs[m], ds[n]) \o handlingLoop(hs, ds, m, n + 1)

\* (h.conf + b.conf + drillConf) / 3 >= 0.7 of sql 379-380, computed in
\* doubles.  For confidences of 0.6, 0.7 and 0.8 the rounding of the two
\* additions and the division matters only when the exact mean is 0.7:
\* the quotient is then 0.7000000000000001 for 0.7 + 0.8 + 0.6 and for
\* 0.8 + 0.7 + 0.6, and 0.6999999999999998 for the other orders and for
\* 0.7 + 0.7 + 0.7.
meanAtLeast70(h, b, d) ==
    IF h + b + d # 2100 THEN h + b + d > 2100
    ELSE <<h, b, d>> \in {<<700, 800, 600>>, <<800, 700, 600>>}

\* sql 364-372: the first drill of the list the beam is near, 0 for none
RECURSIVE nearDrill(_, _, _)
nearDrill(b, ds, n) ==
    IF n > Len(ds) THEN 0
    ELSE IF boxesCloseAndAligned(b.coords, ds[n].coords, 220, 180) THEN n
    ELSE nearDrill(b, ds, n + 1)

\* sql 377-387 from human m on; conf to the nearest thousandth
RECURSIVE rodHumans(_, _, _, _)
rodHumans(b, drillConf, hs, m) ==
    IF m > Len(hs) THEN <<>>
    ELSE (IF /\ boxesCloseAndAligned(hs[m].coords, b.coords, 220, 180)
             /\ meanAtLeast70(hs[m].conf, b.conf, drillConf)
          THEN <<[type |-> "Human using beam/rod on drill",
                  conf |-> round(hs[m].conf + b.conf + drillConf, 3)]>>
          ELSE <<>>)
         \o rodHumans(b, drillConf, hs, m + 1)

\* sql 362-388 from beam k on
RECURSIVE rodLoop(_, _, _, _)
rodLoop(bs, ds, hs, k) ==
    IF k > Len(bs) THEN <<>>
    ELSE LET n == nearDrill(bs[k], ds, 1)
         IN (IF n = 0 THEN <<>>
             ELSE rodHumans(bs[k], ds[n].conf, hs, 1))
            \o rodLoop(bs, ds, hs, k + 1)

\* sql 334-405: the rules run on the boxes of the frame, in the order of
\* the source (no cylinder is among the boxes of the model)
ApplyRules ==
    /\ detectorPc = "detect"
    /\ frameViolations' = handlingLoop(humans, drills, 1, 1)
                              \o rodLoop(beams, drills, humans, 1)
                              \o lhLoop(lh_machines, 1, 2)
    /\ detectorPc' = "save"
    /\ UNCHANGED <<lh_machines, humans, drills, beams>>
    /\ UNCHANGED <<revision, videoFile, videoName, lovableApiKey, frameTimes,
                   pc, sanitizedName, filenameViolationHint,
                   filenameTimestamp, storage, todo, violations,
                   detectedFrames, table, calls, i, aiFrameCount, random,
                   response, browser, awaits, pages>>

\* one frame of the detector, from the empty box lists on
InitRules ==
    /\ revision = "six-label"
    /\ videoFile = GoodFile
    /\ videoName = NameClip
    /\ lovableApiKey = FALSE
    /\ frameTimes = <<>>
    /\ InitRun
    /\ lh_machines = <<>>
    /\ NoBoxes
    /\ frameViolations = <<>>
    /\ detectorPc = "detect"
    /\ BrowserOff
    /\ PagesIdle

NextRules ==
    \/ DetectLhMachine
    \/ ApplyRules

SpecRules == InitRules /\ [][NextRules]_vars

\* the frame as the humans, drills and beams models fill it
NextRod ==
    \/ DetectHuman
    \/ DetectDrill
    \/ DetectBeam
    \/ ApplyRules

SpecRod == InitRules /\ [][NextRod]_vars

\* ------------------------------------------------------------------------
\* The upload page: extractFrames and handleAnalyze (VideoUpload.tsx 85-179)
\* ------------------------------------------------------------------------

\* the form the handler receives
request == <<videoFile, videoName, frameTimes>>

\* most captures of one extraction for which toBlob gives null
MaxNullBlobs == 1

\* files the user can have selected (handleFileSelect keeps them <= 250 MB)
ClientFiles ==
    {[name |-> n, size |-> 10, type |-> "video/mp4"] :
        n \in {NameClip, NameFall2}}

\* video.duration || 0 in hundredths of a second: 0 stands for a duration
\* that is NaN or 0; the others are multiples of 4, 5 and 7, so that every
\* sampled time is a whole number of hundredths
Durations == {0, 140, 1400}

\* the count handleAnalyze passes (VideoUpload.tsx 146)
AnalyzeCount == 6

\* other counts a caller of extractFrames can pass
OtherCounts == {1, 4}

\* no lower limit on the number of frames
framesOf_unbounded(n) == n

\* const frames = Math.max(3, count)
framesOf(n) == max(3, n)

\* t of VideoUpload.tsx 117
captureTime(k, frames, d) ==
    IF d # 0 THEN ((k + 1) * d) \div (frames + 1) ELSE 0

\* handleAnalyze up to the call of extractFrames (VideoUpload.tsx 129-146)
HandleAnalyze ==
    /\ clientPc = "idle"
    /\ selectedFile.size > 0
    /\ IF user
       THEN /\ isAnalyzing' = TRUE
            /\ count' = AnalyzeCount
            /\ promise' = "pending"
            /\ clientPc' = "loading"
            /\ UNCHANGED toast
       ELSE /\ toast' = "You must be logged in to analyze videos"
            /\ clientPc' = "finished"
            /\ UNCHANGED <<isAnalyzing, count, promise>>
    /\ UNCHANGED <<selectedFile, user, duration, captureIndex, blobs, times,
                   nullBlobs>>
    /\ UNCHANGED <<revision, lovableApiKey, request, run, detector, pages>>

\* extractFrames called with another count
CallExtractFrames ==
    /\ clientPc = "idle"
    /\ selectedFile.size > 0
    /\ \E n \in OtherCounts : count' = n
    /\ promise' = "pending"
    /\ clientPc' = "loading"
    /\ UNCHANGED <<selectedFile, user, isAnalyzing, duration, captureIndex,
                   blobs, times, nullBlobs, toast>>
    /\ UNCHANGED <<revision, lovableApiKey, request, run, detector, pages>>

\* video.onerror, or video.onloadedmetadata up to the loop
\* (VideoUpload.tsx 93-101 and 124)
LoadVideo ==
    /\ clientPc = "loading"
    /\ \E loaded \in BOOLEAN, ctx \in BOOLEAN :
          IF loaded /\ ctx
          THEN /\ clientPc' = "capture"
               /\ UNCHANGED promise
          ELSE /\ promise' = "rejected"
               /\ clientPc' = "settled"
    /\ UNCHANGED <<selectedFile, user, isAnalyzing, duration, count,
                   captureIndex, blobs, times, nullBlobs, toast>>
    /\ UNCHANGED <<revision, lovableApiKey, request, run, detector, pages>>

\* one iteration of the loop: captureAt(t) ends with a blob, ends with a
\* null blob, or the video raises an error and onerror rejects
\* (VideoUpload.tsx 103-122, 124).  blobs and times are locals of
\* onloadedmetadata: a rejection leaves them out of reach, and the model
\* empties them.
CaptureAt ==
    /\ clientPc = "capture"
    /\ LET frames == framesOf(count)
           t == captureTime(captureIndex, frames, duration)
       IN \E outcome \in {"blob", "null", "error"} :
             IF outcome = "error"
             THEN /\ promise' = "rejected"
                  /\ clientPc' = "settled"
                  /\ captureIndex' = 0
                  /\ blobs' = <<>>
                  /\ times' = <<>>
                  /\ nullBlobs' = 0
             ELSE /\ IF outcome = "blob"
                     THEN /\ blobs' = Append(blobs, captureIndex)
                          /\ times' = Append(times, t)
                          /\ UNCHANGED nullBlobs
                     ELSE /\ nullBlobs < MaxNullBlobs
                          /\ nullBlobs' = nullBlobs + 1
                          /\ UNCHANGED <<blobs, times>>
                  /\ captureIndex' = captureIndex + 1
                  /\ IF captureIndex + 1 >= frames
                     THEN promise' = "resolved" /\ clientPc' = "settled"
                     ELSE UNCHANGED <<promise, clientPc>>
    /\ UNCHANGED <<selectedFile, user, isAnalyzing, duration, count, toast>>
    /\ UNCHANGED <<revision, lovableApiKey, request, run, detector, pages>>
\* the request is sent although the extraction failed: no, it is given up
Invoke_givesUp ==
    /\ clientPc = "settled"
    /\ isAnalyzing
    /\ IF promise = "resolved"
       THEN /\ videoFile' = [present |-> TRUE, size |-> selectedFile.size,
                             type |-> selectedFile.type]
            /\ videoName' = selectedFile.name
            /\ frameTimes' = IF Len(blobs) > 0 THEN times ELSE <<>>
            /\ pc' = "validate"
            /\ clientPc' = "invoked"
            /\ UNCHANGED <<isAnalyzing, toast>>
       ELSE /\ toast' = "Failed to analyze video. Please try again."
            /\ isAnalyzing' = FALSE
            /\ clientPc' = "finished"
            /\ UNCHANGED <<request, pc>>
    /\ UNCHANGED <<selectedFile, user, duration, count, captureIndex, blobs,
                   times, nullBlobs, promise>>
    /\ UNCHANGED <<revision, lovableApiKey, sanitizedName,
                   filenameViolationHint, filenameTimestamp, storage, todo,
                   violations, detectedFrames, table, calls, i, aiFrameCount,
                   random, response, detector, awaits,
                   pages>>

\* handleAnalyze from the settled promise to the request
\* (VideoUpload.tsx 143-164): a rejection is caught and leaves frames null
Invoke ==
    /\ clientPc = "settled"
    /\ isAnalyzing
    /\ videoFile' = [present |-> TRUE, size |-> selectedFile.size,
                     type |-> selectedFile.type]
    /\ videoName' = selectedFile.name
    /\ frameTimes' = IF promise = "resolved" /\ Len(blobs) > 0 THEN times
                     ELSE <<>>
    /\ pc' = "validate"
    /\ clientPc' = "invoked"
    /\ UNCHANGED <<selectedFile, user, isAnalyzing, duration, count,
                   captureIndex, blobs, times, nullBlobs, promise, toast>>
    /\ UNCHANGED <<revision, lovableApiKey, sanitizedName,
                   filenameViolationHint, filenameTimestamp, storage, todo,
                   violations, detectedFrames, table, calls, i, aiFrameCount,
                   random, response, detector, awaits,
                   pages>>

\* the response arrives (VideoUpload.tsx 162-178): a 500 makes invoke
\* return an error, which is thrown to the catch
Toast ==
    /\ clientPc = "invoked"
    /\ pc \in {"done", "failed"}
    /\ toast' = IF pc = "done" THEN "Analysis complete!"
                ELSE "Failed to analyze video. Please try again."
    /\ isAnalyzing' = FALSE
    /\ clientPc' = "finished"
    /\ UNCHANGED <<selectedFile, user, duration, count, captureIndex, blobs,
                   times, nullBlobs, promise>>
    /\ UNCHANGED <<revision, lovableApiKey, request, run, detector, pages>>

\* the page with a file selected, and the function waiting for a request
InitClient ==
    /\ revision = "six-label"
    /\ lovableApiKey \in BOOLEAN
    /\ videoFile = [present |-> FALSE, size |-> 0, type |-> ""]
    /\ videoName = <<>>
    /\ frameTimes = <<>>
    /\ pc = "waiting"
    /\ FreshRun
    /\ DetectorIdle
    /\ clientPc = "idle"
    /\ selectedFile \in ClientFiles
    /\ user \in BOOLEAN
    /\ duration \in Durations
    /\ NoExtraction
    /\ PagesIdle

NextClient ==
    \/ HandleAnalyze
    \/ CallExtractFrames
    \/ LoadVideo
    \/ CaptureAt
    \/ Invoke
    \/ Toast
    \/ Validate
    \/ ParseFilename
    \/ Upload
    \/ Phase1
    \/ Phase1Record
    \/ Phase2
    \/ RealFrame
    \/ SyntheticFrame
    \/ Respond

SpecClient == InitClient /\ [][NextClient]_vars

\* ------------------------------------------------------------------------
\* PHASE 2 await by await (index.ts 192-280 and 293-389)
\* ------------------------------------------------------------------------

Phase2Loops == {"real_frames", "synthetic"}

\* frameNumber of the iteration (index.ts 197 and 295)
iterationFrame ==
    IF pc = "real_frames" THEN realFrameNumber(i)
    ELSE syntheticFrameNumber(i, aiFrameCount)

\* the loop bounds of index.ts 192 and 293
iterations == IF pc = "real_frames" THEN Len(frameTimes) ELSE aiFrameCount

\* i++ and the loop test
NextIteration ==
    /\ i' = i + 1
    /\ pc' = IF i + 1 = iterations THEN "respond" ELSE pc

\* the insert under way may fail only while the failures stay bounded
PendingInsertMayFail == Len(violations) - Len(table) <= MaxInsertFailures

\* from the top of the iteration to the fetch (index.ts 192-199, 293-302)
CallClassifier ==
    /\ pc \in Phase2Loops
    /\ step = "call"
    /\ IF pc = "synthetic" /\ alreadyAnalyzed(iterationFrame)
       THEN /\ NextIteration
            /\ UNCHANGED <<detectedFrames, calls, awaits>>
       ELSE /\ detectedFrames' = IF pc = "synthetic"
                                 THEN detectedFrames \cup {iterationFrame}
                                 ELSE detectedFrames
            /\ calls' = Append(calls, [frame |-> iterationFrame,
                                       image |-> pc = "real_frames"])
            /\ inFlight' = inFlight + 1
            /\ delayed' = FALSE
            /\ step' = "reply"
            /\ UNCHANGED <<pc, i, inserting>>
    /\ UNCHANGED <<form, detector, browser, pages, sanitizedName,
                   filenameViolationHint, filenameTimestamp, storage, todo,
                   violations, table, aiFrameCount, random, response>>

\* a reply that records nothing starts the next iteration at once
ReceiveReply_skipsDelay ==
    /\ pc \in Phase2Loops
    /\ step = "reply"
    /\ inFlight > 0
    /\ inFlight' = inFlight - 1
    /\ \E reply \in Replies :
          /\ ReplyAllowed(reply)
          /\ IF reply.kind \in {"neterr", "badbody"}
             THEN /\ Fail(IF reply.kind = "neterr" THEN "fetch failed"
                          ELSE "Unexpected token in JSON")
                  /\ UNCHANGED <<violations, step, inserting, i>>
             ELSE IF reply.kind = "det" /\ accepts(reply.detection)
             THEN /\ violations' =
                       Append(violations,
                              aiViolation(reply.detection, iterationFrame,
                                          IF pc = "real_frames"
                                          THEN "ai_frame" ELSE "ai"))
                  /\ inserting' = inserting + 1
                  /\ step' = "insert"
                  /\ UNCHANGED <<pc, response, i>>
             ELSE /\ step' = "call"
                  /\ NextIteration
                  /\ UNCHANGED <<violations, inserting, response>>
    /\ UNCHANGED <<form, detector, browser, pages, sanitizedName,
                   filenameViolationHint, filenameTimestamp, storage, todo,
                   detectedFrames, table, calls, aiFrameCount, random,
                   delayed>>

\* the fetch settles and the reply is read (index.ts 199 and 245-269,
\* 302 and 345-375)
ReceiveReply ==
    /\ pc \in Phase2Loops
    /\ step = "reply"
    /\ inFlight > 0
    /\ inFlight' = inFlight - 1
    /\ \E reply \in Replies :
          /\ ReplyAllowed(reply)
          /\ IF reply.kind \in {"neterr", "badbody"}
             THEN /\ Fail(IF reply.kind = "neterr" THEN "fetch failed"
                          ELSE "Unexpected token in JSON")
                  /\ UNCHANGED <<violations, step, inserting>>
             ELSE IF reply.kind = "det" /\ accepts(reply.detection)
             THEN /\ violations' =
                       Append(violations,
                              aiViolation(reply.detection, iterationFrame,
                                          IF pc = "real_frames"
                                          THEN "ai_frame" ELSE "ai"))
                  /\ inserting' = inserting + 1
                  /\ step' = "insert"
                  /\ UNCHANGED <<pc, response>>
             ELSE /\ step' = "delay"
                  /\ UNCHANGED <<violations, inserting, pc, response>>
    /\ UNCHANGED <<form, detector, browser, pages, sanitizedName,
                   filenameViolationHint, filenameTimestamp, storage, todo,
                   detectedFrames, table, calls, i, aiFrameCount, random,
                   delayed>>

\* the insert settles (index.ts 270 and 377-379)
InsertDone ==
    /\ pc \in Phase2Loops
    /\ step = "insert"
    /\ inserting > 0
    /\ \E ok \in BOOLEAN :
          /\ ok \/ PendingInsertMayFail
          /\ Insert(violations[Len(violations)], ok)
    /\ inserting' = inserting - 1
    /\ step' = "delay"
    /\ UNCHANGED <<form, detector, browser, pages, pc, sanitizedName,
                   filenameViolationHint, filenameTimestamp, storage, todo,
                   violations, detectedFrames, calls, i, aiFrameCount, random,
                   response, inFlight, delayed>>

\* the delay that ends the iteration (index.ts 279 and 388)
Delay ==
    /\ pc \in Phase2Loops
    /\ step = "delay"
    /\ delayed' = TRUE
    /\ step' = "call"
    /\ NextIteration
    /\ UNCHANGED <<form, detector, browser, pages, sanitizedName,
                   filenameViolationHint, filenameTimestamp, storage, todo,
                   violations, detectedFrames, table, calls, aiFrameCount,
                   random, response, inFlight, inserting>>

\* runs of the six-label handler on a plain name and on a labelled one
InitAwait ==
    /\ revision = "six-label"
    /\ videoFile \in VideoFiles
    /\ videoName \in {NameClip, NameFall2}
    /\ lovableApiKey \in BOOLEAN
    /\ frameTimes \in FrameTimeLists
    /\ InitRun
    /\ DetectorIdle
    /\ BrowserOff
    /\ PagesIdle

NextAwait ==
    \/ Validate
    \/ ParseFilename
    \/ Upload
    \/ Phase1
    \/ Phase1Record
    \/ Phase2
    \/ CallClassifier
    \/ ReceiveReply
    \/ InsertDone
    \/ Delay
    \/ Respond

SpecAwait == InitAwait /\ [][NextAwait]_vars

\* every await of the run settles: a step that can be taken is taken
SpecAwaitFair == SpecAwait /\ WF_vars(NextAwait)

\* ------------------------------------------------------------------------
\* A second analysis of the same video (index.ts 284-299, part_000 156-166)
\* ------------------------------------------------------------------------

\* the frame numbers a run submitted to the classifier or recorded
usedFrames ==
    {calls[k].frame : k \in 1..Len(calls)}
        \cup {violations[k].frame_number : k \in 1..Len(violations)}

\* the same upload is sent again once the first analysis has answered:
\* the handler starts anew and keeps nothing of the first run
Rerun ==
    /\ pc = "done"
    /\ runNumber = 1
    /\ runNumber' = 2
    /\ previousFrames' = usedFrames
    /\ pc' = "validate"
    /\ sanitizedName' = <<>>
    /\ filenameViolationHint' = NullHint
    /\ filenameTimestamp' = NullTimestamp
    /\ storage' = {}
    /\ todo' = <<>>
    /\ violations' = <<>>
    /\ detectedFrames' = {}
    /\ table' = <<>>
    /\ calls' = <<>>
    /\ i' = 0
    /\ aiFrameCount' = 0
    /\ random' = 0
    /\ response' = NoResponse
    /\ UNCHANGED <<form, detector, browser, awaits, logsPage, modelsPage>>

\* an unlabelled video, no client frames, the credential set
InitRerun ==
    /\ revision \in Revisions
    /\ videoFile = GoodFile
    /\ videoName = NameClip
    /\ lovableApiKey = TRUE
    /\ frameTimes = <<>>
    /\ InitRun
    /\ DetectorIdle
    /\ BrowserOff
    /\ PagesIdle

NextRerun ==
    \/ Validate
    \/ ParseFilename
    \/ Upload
    \/ Phase1
    \/ Phase2
    \/ SyntheticFrame
    \/ ParseFilenameFourLabel
    \/ Phase1FourLabel
    \/ RandomFrame
    \/ Respond
    \/ Rerun

SpecRerun == InitRerun /\ [][NextRerun]_vars

\* ------------------------------------------------------------------------
\* The violation log's click-through (ViolationLogs.tsx 59-61 and 131-138)
\* and the player of the upload page (VideoUpload.tsx 16-71)
\* ------------------------------------------------------------------------

\* the characters encodeURIComponent leaves as they are
Unreserved == SafeChars \cup {"!", "~", "*", "'", "(", ")"}

\* the two hexadecimal digits of the other characters of the model's names
PercentCode ==
    [c \in {" ", "?", "#"} |->
        CASE c = " " -> <<"2", "0">>
          [] c = "?" -> <<"3", "F">>
          [] c = "#" -> <<"2", "3">>]

RECURSIVE encodeURIComponent(_)
encodeURIComponent(s) ==
    IF s = <<>> THEN <<>>
    ELSE (IF Head(s) \in Unreserved \/ Head(s) \notin DOMAIN PercentCode
          THEN <<Head(s)>>
          ELSE <<"%">> \o PercentCode[Head(s)])
         \o encodeURIComponent(Tail(s))

\* URLSearchParams.get on the encoded value: "+" reads as a space and
\* %XX as the character of that code
RECURSIVE searchParamsGet(_)
searchParamsGet(q) ==
    IF q = <<>> THEN <<>>
    ELSE IF Head(q) = "+" THEN <<" ">> \o searchParamsGet(Tail(q))
    ELSE IF /\ Head(q) = "%"
            /\ Len(q) >= 3
            /\ \E c \in DOMAIN PercentCode : PercentCode[c] = SubSeq(q, 2, 3)
    THEN <<CHOOSE c \in DOMAIN PercentCode : PercentCode[c] = SubSeq(q, 2, 3)>>
         \o searchParamsGet(SubSeq(q, 4, Len(q)))
    ELSE <<Head(q)>> \o searchParamsGet(Tail(q))

\* frame parameters of a link opened from elsewhere
LinkFrames == {0, 60}

\* the timestamp button of a row of the log (ViolationLogs.tsx 59-61,
\* 131-138): the rows are those of the violations table, and the page
\* /upload reads the two parameters of the URL (VideoUpload.tsx 16-17)
HandleTimestampClick ==
    /\ logsPc = "list"
    /\ \E k \in 1..Len(table) :
          /\ videoParam' =
                 searchParamsGet(encodeURIComponent(table[k].source_name))
          /\ frameParam' = table[k].frame_number
    /\ logsPc' = "player"
    /\ UNCHANGED <<videoUrl, currentTime>>
    /\ UNCHANGED <<form, detector, browser, run, history, modelsPage>>

\* /upload?video=<key>&frame=<n> opened from a link that names a stored
\* object
OpenPlayer ==
    /\ logsPc = "off"
    /\ \E key \in storage, frame \in LinkFrames :
          /\ videoParam' = searchParamsGet(encodeURIComponent(key))
          /\ frameParam' = frame
    /\ logsPc' = "player"
    /\ UNCHANGED <<videoUrl, currentTime>>
    /\ UNCHANGED <<form, detector, browser, run, history, modelsPage>>

\* the text "null" and the text "undefined"
NoVideoTexts == {<<"n", "u", "l", "l">>,
                 <<"u", "n", "d", "e", "f", "i", "n", "e", "d">>}

\* loadVideo (VideoUpload.tsx 19-32): the public URL names the object
\* whose key is the parameter
LoadVideoUrl ==
    /\ logsPc = "player"
    /\ videoUrl' = IF videoParam # <<>> /\ videoParam \notin NoVideoTexts
                   THEN videoParam ELSE <<>>
    /\ logsPc' = "loaded"
    /\ UNCHANGED <<videoParam, frameParam, currentTime>>
    /\ UNCHANGED <<form, detector, browser, run, history, modelsPage>>

\* the seek effect (VideoUpload.tsx 34-71): doSeek runs once the video can
\* play, which takes an object behind the URL; parseInt(frameNumber) / 30
\* seconds is frameParam thirtieths of a second
Seek ==
    /\ logsPc = "loaded"
    /\ videoUrl # <<>>
    /\ videoUrl \in storage
    /\ currentTime' = frameParam
    /\ logsPc' = "seeked"
    /\ UNCHANGED <<videoParam, frameParam, videoUrl>>
    /\ UNCHANGED <<form, detector, browser, run, history, modelsPage>>

\* runs that record violations from the file name, with the violation log
\* open or the player about to be opened from a link
InitLogs ==
    /\ revision \in Revisions
    /\ videoFile = GoodFile
    /\ videoName \in {NameFall2, NameNoHelmet, NameSpaced}
    /\ lovableApiKey = FALSE
    /\ frameTimes = <<>>
    /\ InitRun
    /\ DetectorIdle
    /\ BrowserOff
    /\ NoHistory
    /\ ModelsOff
    /\ logsPc \in {"list", "off"}
    /\ videoParam = <<>>
    /\ frameParam = 0
    /\ videoUrl = <<>>
    /\ currentTime = 0

NextLogs ==
    \/ Validate
    \/ ParseFilename
    \/ Upload
    \/ Phase1
    \/ Phase1Record
    \/ Phase2
    \/ ParseFilenameFourLabel
    \/ Phase1FourLabel
    \/ HintRecord
    \/ Respond
    \/ HandleTimestampClick
    \/ OpenPlayer
    \/ LoadVideoUrl
    \/ Seek

SpecLogs == InitLogs /\ [][NextLogs]_vars

\* ------------------------------------------------------------------------
\* Model activation (ModelManagement.tsx 33-57)
\* ------------------------------------------------------------------------

\* most activateModelMutation calls of one behaviour
MaxActivations == 2

\* rows of the models table
ModelRows == 3

activeModels == {k \in 1..Len(models) : models[k]}

\* mutate(modelId): the mutation function starts
StartActivation ==
    /\ models # <<>>
    /\ Len(activations) < MaxActivations
    /\ \E modelId \in 1..Len(models) :
          activations' = Append(activations, [modelId |-> modelId,
                                              pc |-> "deactivate"])
    /\ UNCHANGED models
    /\ UNCHANGED <<form, detector, browser, run, history, logsPage>>

\* ModelManagement.tsx 36-40: update({is_active: false}).neq('id', modelId);
\* the result is awaited and its error is not read
DeactivateOthers ==
    \E c \in 1..Len(activations) :
        /\ activations[c].pc = "deactivate"
        /\ \E ok \in BOOLEAN :
              models' = IF ok
                        THEN [k \in 1..Len(models) |->
                                 IF k # activations[c].modelId THEN FALSE
                                 ELSE models[k]]
                        ELSE models
        /\ activations' = [activations EXCEPT ![c].pc = "activate"]
        /\ UNCHANGED <<form, detector, browser, run, history, logsPage>>

\* ModelManagement.tsx 42-48: update({is_active: true}).eq('id', modelId);
\* an error is thrown to onError (54-56), success goes to onSuccess (50-53)
ActivateSelected ==
    \E c \in 1..Len(activations) :
        /\ activations[c].pc = "activate"
        /\ \E ok \in BOOLEAN :
              IF ok
              THEN /\ models' = [models EXCEPT ![activations[c].modelId] = TRUE]
                   /\ activations' = [activations EXCEPT ![c].pc = "success"]
              ELSE /\ activations' = [activations EXCEPT ![c].pc = "error"]
                   /\ UNCHANGED models
        /\ UNCHANGED <<form, detector, browser, run, history, logsPage>>

\* the page over a table in which at most one model is active
InitModels ==
    /\ revision = "six-label"
    /\ videoFile = GoodFile
    /\ videoName = NameClip
    /\ lovableApiKey = FALSE
    /\ frameTimes = <<>>
    /\ InitRun
    /\ DetectorIdle
    /\ BrowserOff
    /\ NoHistory
    /\ LogsOff
    /\ models \in [1..ModelRows -> BOOLEAN]
    /\ Cardinality(activeModels) <= 1
    /\ activations = <<>>

NextModels ==
    \/ StartActivation
    \/ DeactivateOthers
    \/ ActivateSelected

SpecModels == InitModels /\ [][NextModels]_vars

\* ------------------------------------------------------------------------
\* Properties
\* ------------------------------------------------------------------------

ViolationSet == {violations[k] : k \in 1..Len(violations)}

FilenameRecords ==
    SelectSeq(violations, LAMBDA v : v.detection_method = "filename_parsing")

CallFrames == {calls[k].frame : k \in 1..Len(calls)}

\* the file name has been parsed (validation passed and the parse ran)
Parsed == pc \notin {"validate", "parse"} /\ sanitizedName # <<>>

\* C1: in a run whose file name parsed to a label and a timestamp, no
\* classifier call is issued and every recorded violation has detection
\* method filename_parsing.
C1_FilenameRunSkipsClassifier ==
    (Parsed /\ Truthy(filenameViolationHint)
               /\ filenameTimestamp # NullTimestamp)
        => /\ calls = <<>>
           /\ \A v \in ViolationSet : v.detection_method = "filename_parsing"

\* C2: within one run no two recorded violations have the same frame number.
C2_OneViolationPerFrame ==
    \A a, b \in 1..Len(violations) :
        a # b => violations[a].frame_number # violations[b].frame_number

\* the run is on the path that classifies frame numbers of its own making:
\* the synthetic fallback of index.ts, the random frames of part_000
OnSyntheticPath == aiFrameCount > 0

\* C3: on the synthetic-fallback path no call is made for a frame number
\* that was already seen (a filename-derived frame, or a frame classified
\* earlier in the run), and no two recorded violations share a frame number.
C3_SyntheticFramesClassifiedOnce ==
    OnSyntheticPath =>
        /\ \A a, b \in 1..Len(calls) : a # b => calls[a].frame # calls[b].frame
        /\ \A k \in 1..Len(FilenameRecords) :
              FilenameRecords[k].frame_number \notin CallFrames
        /\ \A a, b \in 1..Len(violations) :
              a # b => violations[a].frame_number # violations[b].frame_number

\* a finished synthetic run of six frames whose second frame number, 60, was
\* taken by a filename-derived record: five calls, one of them accepted
C3_Witness ==
    /\ pc = "done"
    /\ revision = "six-label"
    /\ aiFrameCount = 6
    /\ \E k \in 1..Len(FilenameRecords) : FilenameRecords[k].frame_number = 60
    /\ Len(calls) = 5
    /\ Len(aiViolations) = 1

\* C4: for a file name <label>_at_<HH>_<MM>_<SS> with T >= 1 the success
\* response of index.ts reports exactly 3 violations, with frame numbers
\* 30T-1, 30T, 30T+1, the parsed label as type and severity critical,
\* whatever the credential and the client frames are.
C4_UnderscoreNameReportsThree ==
    LET m == formatWithUnderscores(videoName)
        f == m.ts * 30
        d == response.details
    IN (/\ pc = "done"
        /\ revision = "six-label"
        /\ m.ok /\ Len(m.hint) > 0 /\ m.ts >= 1)
          => /\ response.success
             /\ response.violations = 3
             /\ Len(d) = 3
             /\ {d[k].frame_number : k \in 1..Len(d)} = {f - 1, f, f + 1}
             /\ \A k \in 1..Len(d) : /\ d[k].violation_type = m.hint
                                     /\ d[k].severity = "critical"

\* C5: the filename-derived phase of index.ts records exactly the frame
\* numbers f-1, f, f+1 that are not negative, f = 30 * timestamp (three
\* records when f >= 1, frames 0 and 1 when the timestamp is 0), each with a
\* confidence in [0.92, 0.99], severity critical and method filename_parsing.
C5_FilenameFrames ==
    LET f == filenameTimestamp * 30
    IN (revision = "six-label" /\ pc \in {"phase1_loop", "phase2"})
          => /\ \A v \in ViolationSet :
                   /\ v.detection_method = "filename_parsing"
                   /\ v.severity = "critical"
                   /\ v.confidence >= 920 /\ v.confidence <= 990
             /\ (pc = "phase2" /\ Truthy(filenameViolationHint)
                               /\ filenameTimestamp # NullTimestamp)
                   => /\ {v.frame_number : v \in ViolationSet}
                           = {g \in {f - 1, f, f + 1} : g >= 0}
                      /\ Len(violations) = IF f >= 1 THEN 3 ELSE 2
                      /\ f = 0 => {v.frame_number : v \in ViolationSet} = {0, 1}

\* the phase has just ended for a name with timestamp 0: two records, the
\* first with the largest confidence the draw allows
C5_Witness ==
    /\ revision = "six-label"
    /\ pc = "phase2"
    /\ filenameTimestamp = 0
    /\ Len(violations) = 2
    /\ violations[1].confidence = 990
    /\ violations[2].frame_number = 1

\* the label captured by the "min" pattern, and its minutes and seconds
minCapture(s) ==
    LET m == regexMatch(s, "min")
        w == minTail(s, m.to + 1)
        d == m.to + 5
    IN [label |-> SubSeq(s, m.from, m.to),
        minutes |-> parseInt(s, d, d + w - 1),
        seconds |-> parseInt(s, d + w + 1, d + w + 2)]

\* C6: for a file name matching <label>_at_<MM>.<SS> min the parse yields
\* timestampSeconds = MM*60+SS and the captured label with underscores
\* replaced by spaces and no leading or trailing white space.
C6_MinFormatLabelTrimmed ==
    (Parsed /\ revision = "six-label" /\ regexMatch(videoName, "min").ok)
        => /\ filenameTimestamp = minCapture(videoName).minutes * 60
                                    + minCapture(videoName).seconds
           /\ filenameViolationHint
                 = trim(replaceUnderscores(minCapture(videoName).label))

\* some non-empty label is followed by the tail of the pattern
MatchesPattern(s, kind) == \E e \in 1..Len(s) : tailAt(s, e + 1, kind)

MatchesSpacePattern(s) == \E e \in 1..Len(s) : spaceTail(s, e + 1)

MatchesNoPattern(s) ==
    /\ ~MatchesPattern(s, "hms")
    /\ ~MatchesPattern(s, "min")
    /\ ~MatchesSpacePattern(s)

\* C7: for a file name that matches none of the recognised patterns the
\* parse yields a null label and a null timestamp, and the run records no
\* violation with detection method filename_parsing.
C7_NoPatternNoHint ==
    Parsed =>
        \/ /\ filenameViolationHint = NullHint
           /\ filenameTimestamp = NullTimestamp
           /\ FilenameRecords = <<>>
        \/ ~MatchesNoPattern(videoName)

\* a finished run on "Fall_at_00_05.mp4" (a near miss of the underscore
\* pattern) that recorded a classifier violation and nothing else
C7_Witness ==
    /\ pc = "done"
    /\ revision = "six-label"
    /\ videoName = NameNearMiss
    /\ filenameViolationHint = NullHint
    /\ Len(violations) = 1

\* the seconds of the HH_MM_SS stamp of the space-separated pattern
spacePatternSeconds(s) ==
    LET e == lazySpaceLabelEnd(s, 1)
        a == spaceRun(s, e + 1)
        d == e + a + 3 + spaceRun(s, e + a + 3)
    IN parseInt(s, d, d + 1) * 3600 + parseInt(s, d + 3, d + 4) * 60
         + parseInt(s, d + 6, d + 7)

\* C8: a file name "<label> at <HH_MM_SS>" is recognised by the parser and
\* yields the label and timestampSeconds = HH*3600+MM*60+SS, so the run
\* takes the filename-derived path.
C8_SpacePatternRecognised ==
    (Parsed /\ filenameMatch(videoName).ok)
        => /\ filenameViolationHint = filenameMatch(videoName).hint
           /\ filenameTimestamp = spacePatternSeconds(videoName)
           /\ pc = "done" => FilenameRecords # <<>>

\* the records built from classifier replies
ClassifierRecords == IF calls = <<>> THEN <<>> ELSE aiViolations

\* C9: a classifier reply is recorded only if has_violation is true and its
\* confidence is strictly greater than the threshold (0.6 in the six-label
\* handler, 0.7 in the four-label one); a reply at the threshold is not
\* recorded, and a unit records at most one violation.
C9_StrictThreshold ==
    LET threshold == IF revision = "six-label" THEN 600 ELSE 700
    IN /\ Len(ClassifierRecords) <= Len(calls)
       /\ \A k \in 1..Len(ClassifierRecords) :
             \E r \in Replies :
                /\ r.kind = "det"
                /\ r.detection.has_violation
                /\ r.detection.confidence > threshold
                /\ ClassifierRecords[k].confidence = r.detection.confidence
                /\ ClassifierRecords[k].severity = r.detection.severity
                /\ ClassifierRecords[k].confidence # threshold

\* a finished six-label run of two calls: one reply just above the
\* threshold was recorded, the other unit recorded nothing
C9_Witness ==
    /\ pc = "done"
    /\ revision = "six-label"
    /\ Len(calls) = 2
    /\ Len(ClassifierRecords) = 1
    /\ ClassifierRecords[1].confidence = 601

\* C10: when one classifier call fails the unit is skipped, the remaining
\* units are still classified and the run ends with a success response.
C10_FailedCallSkipsUnit ==
    (revision = "six-label" /\ response.sent /\ calls # <<>>)
        => /\ response.success
           /\ Len(frameTimes) > 0 => Len(calls) = Len(frameTimes)

\* C11: with no classifier credential and a file name that matches no
\* pattern the run makes no classifier call and records no violation, and a
\* run whose upload was stored never fails: its response is the success
\* response with violations = 0 and an empty details list.
C11_NoCredentialNoViolation ==
    ~lovableApiKey =>
        \/ /\ calls = <<>>
           /\ violations = <<>>
           /\ table = <<>>
           /\ storage # {} => pc # "failed"
           /\ (response.sent /\ storage # {})
                 => /\ response.success
                    /\ response.status = 200
                    /\ response.violations = 0
                    /\ response.details = <<>>
        \/ ~MatchesNoPattern(videoName)

\* a finished run of index.ts on "clip.mp4" without a credential, client
\* frames attached: the empty success response
C11_Witness ==
    /\ revision = "six-label"
    /\ ~lovableApiKey
    /\ videoName = NameClip
    /\ Len(frameTimes) = 2
    /\ pc = "done"
    /\ response.success
    /\ response.violations = 0
    /\ calls = <<>>

\* the payload is missing, too large or of a type outside the five allowed
\* ones, or the sanitized file name is empty
InvalidUpload ==
    \/ ~videoFile.present
    \/ videoFile.size > 250
    \/ videoFile.type \notin {"video/mp4", "video/avi", "video/mov",
                              "video/quicktime", "video/x-msvideo"}
    \/ sanitize(videoName) = <<>>

ValidationErrors == {"Invalid file upload", "File size exceeds 250MB limit",
                     "Invalid file type. Only MP4, AVI, and MOV are allowed",
                     "Invalid filename"}

\* C12: a run on an invalid upload goes from validation straight to the
\* failure response: nothing is written to storage, no classifier call is
\* issued and no violation is built or inserted.
C12_InvalidUploadDoesNothing ==
    InvalidUpload =>
        /\ pc \in {"validate", "failed"}
        /\ storage = {}
        /\ calls = <<>>
        /\ violations = <<>>
        /\ table = <<>>
        /\ response.sent = (pc = "failed")
        /\ pc = "failed" => /\ ~response.success
                            /\ response.status = 500
                            /\ response.error \in ValidationErrors

\* the run on a video/webm payload has ended with the type error
C12_Witness ==
    /\ videoFile.present
    /\ videoFile.type = "video/webm"
    /\ pc = "failed"
    /\ response.error = "Invalid file type. Only MP4, AVI, and MOV are allowed"
    /\ storage = {}

\* the characters of s that are allowed, in order
strip(s) == SelectSeq(s, LAMBDA c : c \in SafeChars)

\* C13: the sanitized file name is the declared name with every character
\* outside [A-Za-z0-9._-] removed, cut to 255 characters, and a valid
\* upload whose name has no allowed character is rejected with
\* "Invalid filename".
C13_SanitizeStrips ==
    LET stripped == strip(videoName)
        cut == SubSeq(stripped, 1, IF Len(stripped) < 255 THEN Len(stripped)
                                   ELSE 255)
    IN /\ sanitizedName # <<>> => sanitizedName = cut
       /\ (pc # "validate" /\ videoFile = GoodFile /\ stripped = <<>>)
             => /\ pc = "failed"
                /\ response.error = "Invalid filename"

\* C14: a run whose storage write failed (it is past the upload and the
\* bucket holds nothing) has ended with the failure response carrying the
\* storage error message, and has issued no classifier call and built or
\* inserted no violation.
C14_StorageFailureIsFatal ==
    (Parsed /\ pc # "upload" /\ storage = {})
        => /\ pc = "failed"
           /\ response.sent
           /\ ~response.success
           /\ response.status = 500
           /\ response.error \in BucketRefusals
                                 \cup {"Failed to upload video: storage error"}
           /\ calls = <<>>
           /\ violations = <<>>
           /\ table = <<>>

\* the upload of "Fall_at_00_00_02.mp4" failed in a run with a credential
\* and two client frames
C14_Witness ==
    /\ revision = "six-label"
    /\ videoName = NameFall2
    /\ lovableApiKey
    /\ Len(frameTimes) = 2
    /\ filenameTimestamp = 2
    /\ pc = "failed"
    /\ storage = {}
    /\ response.error = "Failed to upload video: storage error"

\* the step builds a violation whose insert fails
InsertFailedStep ==
    Len(violations') = Len(violations) + 1 /\ table' = table

\* the exceptions of a classifier call that the outer catch reports
CallErrors == {"fetch failed", "Unexpected token in JSON"}

centreX2(box) == box[1] + box[3]

centreY2(box) == box[2] + box[4]

\* the centre of box b lies strictly within h to either side and v above or
\* below the centre of box a
centreWithin(a, b, h, v) ==
    /\ centreX2(a) - 2 * h < centreX2(b) /\ centreX2(b) < centreX2(a) + 2 * h
    /\ centreY2(a) - 2 * v < centreY2(b) /\ centreY2(b) < centreY2(a) + 2 * v

\* the thresholds of the four rules, and the pair (300, 250)
RuleThresholds == {<<120, 100>>, <<220, 180>>, <<350, 250>>, <<300, 250>>}

\* the pairs of LH machines that are within (350, 250) of each other and
\* whose confidences average at least 0.70
lhCollisionPairs ==
    {p \in (1..Len(lh_machines)) \X (1..Len(lh_machines)) :
        /\ p[1] < p[2]
        /\ centreWithin(lh_machines[p[1]].coords, lh_machines[p[2]].coords,
                        350, 250)
        /\ lh_machines[p[1]].conf + lh_machines[p[2]].conf >= 1400}

\* the centres of machines a and b are exactly 300 pixels apart
\* horizontally and 200 vertically
ApartBy300And200(a, b) ==
    /\ abs(centreX2(lh_machines[a].coords) - centreX2(lh_machines[b].coords))
          = 600
    /\ abs(centreY2(lh_machines[a].coords) - centreY2(lh_machines[b].coords))
          = 400

\* C16: boxesCloseAndAligned is true exactly when the centre of one box is
\* strictly within h horizontally and v vertically of the other's; the LH
\* rule pushes one candidate per pair within (350, 250) whose confidences
\* average at least 0.70, so a pair with centre distance (300, 200) fires
\* it, while (300, 250) gives false for that pair.
C16_StrictCentreDistance ==
    /\ \A a, b \in 1..Len(lh_machines) : \A t \in RuleThresholds :
          boxesCloseAndAligned(lh_machines[a].coords, lh_machines[b].coords,
                               t[1], t[2])
            = centreWithin(lh_machines[a].coords, lh_machines[b].coords,
                           t[1], t[2])
    /\ detectorPc = "save" =>
          /\ Len(frameViolations) = Cardinality(lhCollisionPairs)
          /\ \A p \in lhCollisionPairs : \E k \in 1..Len(frameViolations) :
                frameViolations[k]
                  = [type |-> "LH machines collision risk",
                     conf |-> (lh_machines[p[1]].conf
                                 + lh_machines[p[2]].conf) \div 2]
          /\ \A a, b \in 1..Len(lh_machines) :
                (/\ a < b
                 /\ ApartBy300And200(a, b)
                 /\ lh_machines[a].conf + lh_machines[b].conf >= 1400)
                   => /\ <<a, b>> \in lhCollisionPairs
                      /\ ~boxesCloseAndAligned(lh_machines[a].coords,
                                               lh_machines[b].coords,
                                               300, 250)

\* the rules have run on two machines (300, 200) apart with confidences
\* 0.7 and 0.7: one candidate
C16_Witness ==
    /\ detectorPc = "save"
    /\ Len(lh_machines) = 2
    /\ ApartBy300And200(1, 2)
    /\ lh_machines[1].conf = 700
    /\ lh_machines[2].conf = 700
    /\ frameViolations = <<[type |-> "LH machines collision risk",
                            conf |-> 700]>>

\* C17: boxesCloseAndAligned gives the same answer for (A, B) and (B, A),
\* for every pair of boxes and every pair of thresholds.
C17_Symmetric ==
    \A a, b \in 1..Len(lh_machines) : \A t \in RuleThresholds :
        boxesCloseAndAligned(lh_machines[a].coords, lh_machines[b].coords,
                             t[1], t[2])
          = boxesCloseAndAligned(lh_machines[b].coords, lh_machines[a].coords,
                                 t[1], t[2])

\* two machines, the second 351 pixels to the right of and 250 below the
\* first: not close under (350, 250) in either order, and no candidate
C17_Witness ==
    /\ detectorPc = "save"
    /\ Len(lh_machines) = 2
    /\ centreX2(lh_machines[2].coords) - centreX2(lh_machines[1].coords) = 702
    /\ centreY2(lh_machines[2].coords) - centreY2(lh_machines[1].coords) = 500
    /\ ~boxesCloseAndAligned(lh_machines[2].coords, lh_machines[1].coords,
                             350, 250)
    /\ frameViolations = <<>>

C19_FailureRejects ==
    (duration = 0 \/ nullBlobs > 0) => promise # "resolved"

\* C20: when the extraction started by handleAnalyze fails, the request is
\* still sent, with the file and its name and with no frame part; the run
\* on it never enters the real-frame loop, every classifier call it makes
\* is a text-only call of the synthetic fallback (made only with a
\* credential), and handleAnalyze ends only after the run has answered.
C20_ExtractionFailureFallsBack ==
    (promise = "rejected" /\ count = AnalyzeCount) =>
        /\ clientPc \in {"settled", "invoked", "finished"}
        /\ clientPc = "settled" => pc = "waiting"
        /\ clientPc = "finished" => pc \in {"done", "failed"}
        /\ clientPc \in {"invoked", "finished"} =>
              /\ videoFile.present
              /\ videoName = selectedFile.name
              /\ frameTimes = <<>>
        /\ pc # "real_frames"
        /\ \A k \in 1..Len(calls) : ~calls[k].image
        /\ calls # <<>> => lovableApiKey /\ aiFrameCount \in 5..8
        /\ (lovableApiKey /\ pc \in {"synthetic", "respond", "done"})
              => aiFrameCount \in 5..8

\* the video failed to load, the request went out without frames and the
\* run, with a credential, classified five synthetic frame numbers
C20_Witness ==
    /\ promise = "rejected"
    /\ count = AnalyzeCount
    /\ clientPc = "finished"
    /\ toast = "Analysis complete!"
    /\ lovableApiKey
    /\ aiFrameCount = 5
    /\ Len(calls) = 5
    /\ pc = "done"

\* C21: within one run a classifier call starts only when no earlier call
\* awaits its reply and no insert is under way, and, after the first call,
\* only once the delay has run since the call before it
C21_OneCallAtATime ==
    [][Len(calls') > Len(calls) =>
          /\ inFlight = 0
          /\ inserting = 0
          /\ inFlight' = 1
          /\ calls # <<>> => delayed]_vars

\* the second call of a run is under way, after an insert of the first
C21_Witness ==
    /\ videoName = NameClip
    /\ Len(calls) = 2
    /\ inFlight = 1
    /\ Len(table) = 1

Terminated == pc \in {"done", "failed"}

\* C22: when every await settles, a run ends in done or failed; a response
\* has been sent exactly when the run has ended and is never replaced; a
\* run on the synthetic path issues at most 8 classifier calls and any
\* other run at most one per client frame
C22_TerminatesWithOneResponse ==
    /\ <>Terminated
    /\ [](response.sent <=> Terminated)
    /\ [](Terminated => response.success = (pc = "done"))
    /\ [][response.sent => response' = response]_vars
    /\ [](Len(calls) <= IF OnSyntheticPath THEN 8 ELSE Len(frameTimes))

\* a run that ended with the success response after eight synthetic calls
C22_Witness ==
    /\ pc = "done"
    /\ response.sent
    /\ OnSyntheticPath
    /\ Len(calls) = 8

\* C23: every violation a run has recorded, from the file name or from a
\* classifier reply, has a confidence between 0 and 1 (0 and 1000
\* thousandths)
C23_ConfidenceInRange ==
    \A k \in 1..Len(violations) :
        /\ violations[k].confidence >= 0
        /\ violations[k].confidence <= 1000

\* C24: on the synthetic path, no frame number that the second analysis of
\* an unlabelled video submits or records was submitted or recorded by the
\* first
C24_RerunFramesDisjoint ==
    runNumber = 2 => usedFrames \cap previousFrames = {}

RodCandidates ==
    SelectSeq(frameViolations,
              LAMBDA fv : fv.type = "Human using beam/rod on drill")

\* the (person, beam) pairs the rod-assisted rule is to report: some drill
\* is close-and-aligned (220, 180) with the beam, the person is
\* close-and-aligned (220, 180) with the beam, and the three confidences
\* have a mean of at least 0.70 (a sum of at least 2100 thousandths)
RodPairs ==
    {<<m, k>> \in (1..Len(humans)) \X (1..Len(beams)) :
        /\ centreWithin(humans[m].coords, beams[k].coords, 220, 180)
        /\ \E n \in 1..Len(drills) :
              /\ centreWithin(beams[k].coords, drills[n].coords, 220, 180)
              /\ humans[m].conf + beams[k].conf + drills[n].conf >= 2100}

\* C25: once the rules have run on a frame, the rod-assisted rule has
\* pushed one "Human using beam/rod on drill" candidate for every
\* (person, beam) pair that has such a drill, and no other
C25_RodRuleEveryPair ==
    detectorPc = "save" => Len(RodCandidates) = Cardinality(RodPairs)

\* String.prototype.toLowerCase on the letters A-Z
LowerCaseOf ==
    [A |-> "a", B |-> "b", C |-> "c", D |-> "d", E |-> "e", F |-> "f", G |->
     "g", H |-> "h", I |-> "i", J |-> "j", K |-> "k", L |-> "l", M |->
     "m", N |-> "n", O |-> "o", P |-> "p", Q |-> "q", R |-> "r", S |->
     "s", T |-> "t", U |-> "u", V |-> "v", W |-> "w", X |-> "x", Y |->
     "y", Z |-> "z"]

toLowerCase(s) ==
    [k \in 1..Len(s) |->
        IF s[k] \in DOMAIN LowerCaseOf THEN LowerCaseOf[s[k]] ELSE s[k]]

\* index.ts 120-127
IGNORED_VIOLATIONS ==
    {<<"m", "i", "s", "s", "i", "n", "g", " ", "g", "l", "o", "v", "e", "s">>,
     <<"u", "n", "s", "a", "f", "e", " ", "p", "o", "s", "t", "u", "r", "e">>,
     <<"n", "o", " ", "h", "e", "l", "m", "e", "t">>,
     <<"n", "o", " ", "v", "e", "s", "t">>,
     <<"p", "h", "o", "n", "e", " ", "u", "s", "a", "g", "e">>}

\* C26: no violation a run has recorded, from the file name or from a
\* classifier reply, has a type that is, without regard to case, one of
\* the ignored types
C26_IgnoredTypesFiltered ==
    \A k \in 1..Len(violations) :
        toLowerCase(violations[k].violation_type) \notin IGNORED_VIOLATIONS

\* C27: the success response reports, as count and as details, exactly the
\* rows that the run wrote to the violations table
C27_ResponseMatchesTable ==
    (pc = "done" /\ response.success) =>
        /\ response.violations = Len(table)
        /\ response.details = table

\* C28: an upload that has passed the function's validation and gone
\* through the upload step is within the bucket's size limit and among its
\* MIME types, and the run has not ended with a refusal of the bucket
C28_ValidatedUploadFitsBucket ==
    (sanitizedName # <<>> /\ pc \notin {"validate", "parse", "upload"})
        => /\ videoFile.size <= BucketMaxMiB
           /\ videoFile.type \in bucketTypes
           /\ response.error \notin BucketRefusals

\* C29: the video reference that the click on a row of the violation log
\* hands to the player is a key under which the run stored the video, so
\* that the player has an object to load and to seek in
C29_ClickPassesStorageKey ==
    [][(logsPc = "list" /\ logsPc' = "player") => videoParam' \in storage]_vars

\* C30: once every activation that was started has completed, at most one
\* row of the models table is active
C30_AtMostOneActiveModel ==
    (/\ activations # <<>>
     /\ \A c \in 1..Len(activations) :
           activations[c].pc \in {"success", "error"})
        => Cardinality(activeModels) <= 1

====
